---- MODULE Spec2Model ----
(***************************************************************************)
(* Verification model of the ECU log analysis engine:                      *)
(*   - the event grouping shared by the analyzers (AnalyzerUtils and the   *)
(*     per-analyzer copies of it),                                         *)
(*   - BoostControlAnalyzer, AFRAnalyzer, IAMAnalyzer, KnockDetector and   *)
(*     FuelTrimAnalyzer (candidate detection, grouping, result),           *)
(*   - LogScoreTab.compileAllIssues,                                       *)
(*   - AutotuneEngine.analyze.                                             *)
(*                                                                         *)
(* Units.  JavaScript numbers are modelled by integers in fixed units so   *)
(* that every threshold of the source is an exact integer:                 *)
(*   time            milliseconds        (0.5 s   = 500)                   *)
(*   pressure        1/10 kPa            (20.3 kPa = 203)                  *)
(*   lambda          1/1000              (0.01    = 10)                    *)
(*   IAM             1/100               (0.30    = 30)                    *)
(*   throttle        percent                                               *)
(* Quotients that are not integers are kept as exact fractions and         *)
(* compared by cross multiplication.                                       *)
(***************************************************************************)
EXTENDS Integers, Sequences, FiniteSets, TLC

VARIABLES
  component,        \* the analyzer instance this run drives
  tuneLoaded,       \* window.tuneFileParser.isLoaded()
  data,             \* dataProcessor.getData(): the rows of the log
  rawEvents,        \* the local `events` of the last analyze() (candidates)
  grouped,          \* the grouped events of the last analyze() before any duration filter
  analysisResults,  \* this.analysisResults
  cache,            \* tabManager's cached analysis results, by tab id
  showShortTermTrim,\* LogScoreTab.showShortTermTrim
  compiledIssues,   \* LogScoreTab.compiledIssues
  heap,             \* JavaScript arrays of numbers, by reference
  tune,             \* the loaded calibration: references into the heap
  tuneOriginal,     \* the calibration's values when it was loaded
  options,          \* the options of the last AutotuneEngine.analyze() call
  autotuneResult,   \* the value returned by the last AutotuneEngine.analyze()
  analyzeCalls,     \* number of AutotuneEngine.analyze() calls so far
  download,         \* the last AutotuneEngine.downloadTune(): arguments, return value, file
  columns,          \* dataProcessor.getColumns(): the column names of the log
  returned,         \* the last call of a LoadLimitAnalyzer method and its return value
  listeners,        \* AppState._listeners: the array of callbacks of each event
  unsubscribers,    \* the unsubscribe functions AppState.on() has returned
  emit              \* the running or last AppState._emit() and its forEach position

vars == <<component, tuneLoaded, data, rawEvents, grouped, analysisResults,
          cache, showShortTermTrim, compiledIssues,
          heap, tune, tuneOriginal, options, autotuneResult, analyzeCalls, download,
          columns, returned, listeners, unsubscribers, emit>>

analyzerVars == <<tuneLoaded, data, rawEvents, grouped, analysisResults>>
logScoreVars == <<cache, showShortTermTrim, compiledIssues>>
autotuneVars == <<heap, tune, tuneOriginal, options, autotuneResult, analyzeCalls, download>>
callVars == <<columns, returned>>
appStateVars == <<listeners, unsubscribers, emit>>

-----------------------------------------------------------------------------
(* Bounds of the model *)

MaxRows == 3

-----------------------------------------------------------------------------
(* JavaScript helpers *)

Abs(x) == IF x < 0 THEN -x ELSE x

\* e[name] on an object that may lack the property
Prop(e, name) == IF name \in DOMAIN e THEN e[name] ELSE "undefined"

RECURSIVE Concat(_)
Concat(ss) == IF ss = <<>> THEN <<>> ELSE Head(ss) \o Concat(Tail(ss))

\* Array.prototype.sort((a, b) => a.time - b.time): stable, ascending by time
RECURSIVE InsertByTime(_, _)
InsertByTime(sorted, e) ==
  IF sorted = <<>> THEN <<e>>
  ELSE IF sorted[Len(sorted)].time <= e.time THEN Append(sorted, e)
  ELSE Append(InsertByTime(SubSeq(sorted, 1, Len(sorted) - 1), e), sorted[Len(sorted)])

RECURSIVE SortByTime(_)
SortByTime(events) ==
  IF events = <<>> THEN <<>>
  ELSE InsertByTime(SortByTime(SubSeq(events, 1, Len(events) - 1)), events[Len(events)])

NoResult == [present |-> FALSE]

RECURSIVE SumOf(_)
SumOf(xs) == IF xs = <<>> THEN 0 ELSE Head(xs) + SumOf(Tail(xs))

\* exact fractions [n |-> numerator, d |-> denominator > 0] in lowest terms
RECURSIVE GCD(_, _)
GCD(a, b) == IF b = 0 THEN a ELSE GCD(b, a % b)

\* the fraction n/d (d # 0) in lowest terms with a positive denominator
Frac(n, d) ==
  LET g == GCD(Abs(n), Abs(d))
      sign == IF d < 0 THEN -1 ELSE 1
  IN [n |-> sign * (n \div g), d |-> sign * (d \div g)]

Rat(k) == [n |-> k, d |-> 1]
RAdd(a, b) == Frac(a.n * b.d + b.n * a.d, a.d * b.d)
RSub(a, b) == Frac(a.n * b.d - b.n * a.d, a.d * b.d)
RMul(a, b) == Frac(a.n * b.n, a.d * b.d)
RDiv(a, b) == Frac(a.n * b.d, a.d * b.n)
RAbs(a) == [n |-> Abs(a.n), d |-> a.d]
RLess(a, b) == a.n * b.d < b.n * a.d
RMax(a, b) == IF RLess(a, b) THEN b ELSE a
RMin(a, b) == IF RLess(b, a) THEN b ELSE a

RECURSIVE RSum(_)
RSum(xs) == IF xs = <<>> THEN Rat(0) ELSE RAdd(Head(xs), RSum(Tail(xs)))

-----------------------------------------------------------------------------
(* Grouping by time window *)

\* the loop of groupEventsByTime: the groups as sequences of member events
RECURSIVE GroupLoop(_, _, _, _, _)
GroupLoop(sortedEvents, i, currentGroup, groupedEvents, timeWindow) ==
  IF i > Len(sortedEvents) THEN Append(groupedEvents, currentGroup)
  ELSE LET currentEvent == sortedEvents[i]
           lastEventInGroup == currentGroup[Len(currentGroup)]
           timeDiff == currentEvent.time - lastEventInGroup.time
       IN IF timeDiff <= timeWindow
          THEN GroupLoop(sortedEvents, i + 1, Append(currentGroup, currentEvent),
                         groupedEvents, timeWindow)
          ELSE GroupLoop(sortedEvents, i + 1, <<currentEvent>>,
                         Append(groupedEvents, currentGroup), timeWindow)

\* const sortedEvents = [...events].sort(...): the caller's array and the sorted copy
SpreadThenSort(events) == [events |-> events, sortedEvents |-> SortByTime(events)]

\* groupEventsByTime walking the caller's array as it is given
groupEventsByTimeUnsorted(events, timeWindow) ==
  IF events = <<>> THEN <<>>
  ELSE GroupLoop(events, 2, <<events[1]>>, <<>>, timeWindow)

\* groupEventsByTime: the groups, in order, that createGroupedEvent is applied to
groupEventsByTime(events, timeWindow) ==
  IF events = <<>> THEN <<>>
  ELSE LET sortedEvents == SortByTime(events)
       IN GroupLoop(sortedEvents, 2, <<sortedEvents[1]>>, <<>>, timeWindow)

\* a call groupEventsByTime(events, timeWindow, group => group) on the caller's array
\* rawEvents; data keeps the arguments as they were passed
GroupEventsByTimeCall ==
  /\ component = "grouping"
  /\ returned.method = "none"
  /\ rawEvents' = SpreadThenSort(rawEvents).events
  /\ returned' = [method |-> "groupEventsByTime", isNull |-> FALSE,
                  value |-> [events |-> groupEventsByTime(rawEvents, data[1].timeWindow)],
                  rows |-> Len(rawEvents)]
  /\ UNCHANGED <<component, tuneLoaded, data, grouped, analysisResults, columns>>
  /\ UNCHANGED <<appStateVars, logScoreVars, autotuneVars>>

\* eventGroup.reduce((prev, current) => key(current) > key(prev) ? current : prev):
\* the position of the first member whose key is the largest of the group
ReduceFirst(keys) == 1
ReduceMax(keys) ==
  CHOOSE k \in 1..Len(keys) :
    /\ \A j \in 1..Len(keys) : keys[j] <= keys[k]
    /\ \A j \in 1..(k - 1) : keys[j] < keys[k]

\* the raw-event indices of a group (kept beside each grouped event to state
\* which candidates a grouped event covers)
MembersOf(eventGroup) == {eventGroup[k].index : k \in 1..Len(eventGroup)}

-----------------------------------------------------------------------------
(* BoostControlAnalyzer *)

overshootThreshold == 50
undershootThreshold == -50
boostTargetTolerance == 100
boostGroupingTimeWindow == 500
errorThresholds == <<203, 117, 53, 21>>
minBoostPressure == 1000
minOvershootDuration == 250
minUndershootDuration == 500
minThrottleForOvershoot == 30
maxThrottleForUndershoot == 50

\* tuneFileParser.getBoostLimit(rpm): the calibration's RPM-indexed boost limit
getBoostLimit(rpm) == IF rpm >= 6000 THEN 1250 ELSE 1600

\* the rows a boost log is made of (boost columns present)
BoostRowKinds ==
  { [actualBoost |-> 1500, boostTarget |-> 1300, throttle |-> 60, rpm |-> 3000],
    [actualBoost |-> 1500, boostTarget |-> 1300, throttle |-> 20, rpm |-> 3000],
    [actualBoost |-> 1300, boostTarget |-> 1300, throttle |-> 60, rpm |-> 3000],
    [actualBoost |-> 1300, boostTarget |-> 1300, throttle |-> 60, rpm |-> 6000],
    [actualBoost |-> 1100, boostTarget |-> 1300, throttle |-> 60, rpm |-> 3000],
    [actualBoost |->  900, boostTarget |-> 1300, throttle |-> 60, rpm |-> 3000] }

\* time steps between consecutive rows of a boost log
BoostDeltas == {300, 500, 501}

\* the ladder with thresholds that are reached inclusively
classifyErrorSeverityInclusive(error) ==
  LET absError == Abs(error)
  IN IF absError >= errorThresholds[1] THEN "critical"
     ELSE IF absError >= errorThresholds[2] THEN "severe"
     ELSE IF absError >= errorThresholds[3] THEN "moderate"
     ELSE IF absError >= errorThresholds[4] THEN "mild"
     ELSE "normal"

classifyErrorSeverity(error) ==
  LET absError == Abs(error)
  IN IF absError > errorThresholds[1] THEN "critical"
     ELSE IF absError > errorThresholds[2] THEN "severe"
     ELSE IF absError > errorThresholds[3] THEN "moderate"
     ELSE IF absError > errorThresholds[4] THEN "mild"
     ELSE "normal"

\* the boost errors classifyErrorSeverity is applied to on its own: every
\* tenth of a kPa from -MaxBoostError to +MaxBoostError
MaxBoostError == 250

BoostErrors == (0 - MaxBoostError)..MaxBoostError

\* one call of classifyErrorSeverity(error) on the argument held in data
ClassifyErrorSeverity ==
  /\ component = "boostseverity"
  /\ returned.method = "none"
  /\ returned' = [method |-> "classifyErrorSeverity", isNull |-> FALSE,
                  value |-> [severity |-> classifyErrorSeverity(data[1].error)],
                  rows |-> Len(data)]
  /\ UNCHANGED <<component, analyzerVars, columns>>
  /\ UNCHANGED <<appStateVars, logScoreVars, autotuneVars>>

\* rows with actual boost >= 100 kPa
BoostFilteredData(rows) == SelectSeq(rows, LAMBDA row : row.actualBoost >= minBoostPressure)

\* one iteration of the forEach of analyze(): the events it pushes for a row
\* (index is the 0-based position in filteredData)
BoostRowEvents(row, index, loaded) ==
  LET boostError == row.actualBoost - row.boostTarget
      boostLimit == IF loaded THEN getBoostLimit(row.rpm) ELSE 0
      boostLimitViolation == loaded /\ row.actualBoost > boostLimit
      eventType == IF boostError > overshootThreshold THEN "overshoot"
                   ELSE IF boostError < undershootThreshold THEN "undershoot"
                   ELSE "normal"
      severity == classifyErrorSeverity(boostError)
  IN IF boostLimitViolation \/ eventType # "normal" \/ Abs(boostError) > boostTargetTolerance
     THEN IF eventType = "overshoot" /\ row.throttle < minThrottleForOvershoot
             /\ ~boostLimitViolation
          THEN <<>>
          ELSE IF eventType = "undershoot" /\ row.throttle <= maxThrottleForUndershoot
                  /\ ~boostLimitViolation
          THEN <<>>
          ELSE << [index |-> index, time |-> row.time,
                   boostTarget |-> row.boostTarget, actualBoost |-> row.actualBoost,
                   boostError |-> boostError, rpm |-> row.rpm, throttle |-> row.throttle,
                   eventType |-> IF boostLimitViolation THEN "limit_violation" ELSE eventType,
                   severity |-> IF boostLimitViolation THEN "critical" ELSE severity,
                   boostLimitViolation |-> boostLimitViolation] >>
     ELSE <<>>

BoostRawEvents(rows, loaded) ==
  LET filteredData == BoostFilteredData(rows)
  IN Concat([i \in 1..Len(filteredData) |-> BoostRowEvents(filteredData[i], i - 1, loaded)])

\* createGroupedEvent of _groupBoostEvents (the context averages are left out)
BoostCreateGroupedEvent(eventGroup) ==
  LET mostSevereEvent ==
        eventGroup[ReduceMax([k \in 1..Len(eventGroup) |-> Abs(eventGroup[k].boostError)])]
  IN [index |-> mostSevereEvent.index,
      time |-> eventGroup[1].time,
      endTime |-> eventGroup[Len(eventGroup)].time,
      duration |-> eventGroup[Len(eventGroup)].time - eventGroup[1].time,
      boostError |-> mostSevereEvent.boostError,
      eventType |-> mostSevereEvent.eventType,
      eventCount |-> Len(eventGroup),
      members |-> MembersOf(eventGroup)]

\* groupEvents(overshootEvents) and groupEvents(undershootEvents), before the duration filters
BoostGroupStage(events) ==
  LET overshootEvents == SelectSeq(events, LAMBDA e : e.eventType = "overshoot")
      undershootEvents == SelectSeq(events, LAMBDA e : e.eventType = "undershoot")
      overshootGroups == groupEventsByTime(overshootEvents, boostGroupingTimeWindow)
      undershootGroups == groupEventsByTime(undershootEvents, boostGroupingTimeWindow)
  IN [overshoot |-> [g \in 1..Len(overshootGroups) |->
                       BoostCreateGroupedEvent(overshootGroups[g])],
      undershoot |-> [g \in 1..Len(undershootGroups) |->
                        BoostCreateGroupedEvent(undershootGroups[g])]]

\* the grouping without the duration filters
groupBoostEventsUnfiltered(events) ==
  IF events = <<>> THEN <<>>
  ELSE SortByTime(BoostGroupStage(events).overshoot \o BoostGroupStage(events).undershoot)

groupBoostEvents(events) ==
  IF events = <<>> THEN <<>>
  ELSE LET stage == BoostGroupStage(events)
           groupedOvershoot ==
             SelectSeq(stage.overshoot, LAMBDA e : e.duration >= minOvershootDuration)
           groupedUndershoot ==
             SelectSeq(stage.undershoot, LAMBDA e : e.duration >= minUndershootDuration)
       IN SortByTime(groupedOvershoot \o groupedUndershoot)

\* e[name] is truthy (a property the object lacks is undefined, hence falsy)
Truthy(e, name) == IF name \in DOMAIN e THEN e[name] = TRUE ELSE FALSE

BoostStatistics(filteredData, groupedEvents) ==
  [totalDataPoints |-> Len(filteredData),
   overshootEvents |-> Len(SelectSeq(groupedEvents, LAMBDA e : e.eventType = "overshoot")),
   undershootEvents |-> Len(SelectSeq(groupedEvents, LAMBDA e : e.eventType = "undershoot")),
   limitViolations |-> Len(SelectSeq(groupedEvents, LAMBDA e : e.eventType = "limit_violation")),
   criticalEvents |-> Len(SelectSeq(groupedEvents, LAMBDA e : Prop(e, "severity") = "critical")),
   severeEvents |-> Len(SelectSeq(groupedEvents, LAMBDA e : Prop(e, "severity") = "severe"))]

\* a row of the log is appended (the log is loaded before analysis begins)
BoostLoadRow ==
  /\ component = "boost"
  /\ ~analysisResults.present
  /\ Len(data) < MaxRows
  /\ \E kind \in BoostRowKinds, dt \in BoostDeltas :
       LET time == IF data = <<>> THEN 0 ELSE data[Len(data)].time + dt
       IN data' = Append(data, [time |-> time] @@ kind)
  /\ UNCHANGED <<component, tuneLoaded, rawEvents, grouped, analysisResults>>
  /\ UNCHANGED <<appStateVars, logScoreVars, autotuneVars, callVars>>

\* BoostControlAnalyzer.analyze() (the actual-boost column is present)
BoostAnalyze ==
  /\ component = "boost"
  /\ ~analysisResults.present
  /\ data # <<>>
  /\ LET filteredData == BoostFilteredData(data)
         events == BoostRawEvents(data, tuneLoaded)
         stage == BoostGroupStage(events)
         groupedEvents == groupBoostEvents(events)
     IN IF filteredData = <<>>
        THEN /\ rawEvents' = <<>>
             /\ grouped' = <<>>
             /\ analysisResults' = [present |-> TRUE, events |-> <<>>,
                                    statistics |-> BoostStatistics(<<>>, <<>>),
                                    error |-> "No boost data found"]
        ELSE /\ rawEvents' = events
             /\ grouped' = stage.overshoot \o stage.undershoot
             /\ analysisResults' = [present |-> TRUE, events |-> groupedEvents,
                                    statistics |-> BoostStatistics(filteredData, groupedEvents),
                                    error |-> "none"]
  /\ UNCHANGED <<component, tuneLoaded, data>>
  /\ UNCHANGED <<appStateVars, logScoreVars, autotuneVars, callVars>>

BoostNext == BoostLoadRow \/ BoostAnalyze

-----------------------------------------------------------------------------
(* The calibration's derived predicates used by the analyzers *)

peEnableLoad == 100
peEnableTps == 50
peInitialTarget == 800

\* tuneFileParser.isPEModeActive(rpm, load, throttle)
isPEModeActive(load, throttle) == load >= peEnableLoad /\ throttle >= peEnableTps

\* tuneFileParser.getPETarget(rpm, load, 'initial')
getPETarget(load) == peInitialTarget

-----------------------------------------------------------------------------
(* AFRAnalyzer *)

leanThreshold == 50
richThreshold == -50
afrTargetTolerance == 20
afrGroupingTimeWindow == 1000
peLeanThreshold == 30
peRichThreshold == -30
peTargetTolerance == 15
peMismatchTolerance == 10
lowThrottleCutoff == 10
minDeviationPercent == 7

\* the rows an AFR log is made of (both lambda columns present)
AFRRowKinds ==
  { [targetAFR |->  850, measuredAFR |->  850, throttle |-> 60, load |-> 150],
    [targetAFR |->  800, measuredAFR |->  900, throttle |-> 60, load |-> 150],
    [targetAFR |->  900, measuredAFR |-> 1000, throttle |-> 20, load |->  50],
    [targetAFR |->  900, measuredAFR |-> 1350, throttle |->  5, load |->  50],
    [targetAFR |->  900, measuredAFR |-> 1350, throttle |-> 20, load |->  50],
    [targetAFR |->  900, measuredAFR |->  800, throttle |-> 20, load |->  50],
    [targetAFR |->  600, measuredAFR |->  645, throttle |-> 20, load |->  50],
    [targetAFR |-> 1000, measuredAFR |-> 1100, throttle |-> 20, load |->  50] }

\* time steps between consecutive rows of an AFR log
AFRDeltas == {1000, 1001}

\* the PE-mode part of an iteration: <<isPEMode, targetMismatch>>
AFRModeOf(row, loaded) ==
  LET isPEMode == loaded /\ isPEModeActive(row.load, row.throttle)
      expectedPETarget == getPETarget(row.load)
      targetMismatch == isPEMode /\ expectedPETarget # 0
                        /\ Abs(row.targetAFR - expectedPETarget) > peMismatchTolerance
  IN [isPEMode |-> isPEMode, targetMismatch |-> targetMismatch]

\* rows skipped at the top of the forEach: zero lambda, or target = 1.0
AFRRowSkipped(row) ==
  \/ row.targetAFR = 0
  \/ row.measuredAFR = 0
  \/ Abs(row.targetAFR - 1000) < 1

\* if (throttle < 10 && !targetMismatch): statistics only, no event
LowThrottleNeverSuppressed(row, targetMismatch) == FALSE
LowThrottleSuppressed(row, targetMismatch) ==
  row.throttle < lowThrottleCutoff /\ ~targetMismatch

\* one iteration of the forEach of analyze(): the events it pushes for a row
AFRRowEvents(row, index, loaded) ==
  IF AFRRowSkipped(row) THEN <<>>
  ELSE
  LET mode == AFRModeOf(row, loaded)
      afrError == row.measuredAFR - row.targetAFR
      lean == IF mode.isPEMode THEN peLeanThreshold ELSE leanThreshold
      rich == IF mode.isPEMode THEN peRichThreshold ELSE richThreshold
      tolerance == IF mode.isPEMode THEN peTargetTolerance ELSE afrTargetTolerance
      eventType == IF afrError > lean THEN "lean"
                   ELSE IF afrError < rich THEN "rich"
                   ELSE "normal"
      isSignificantDeviation == eventType # "normal" \/ Abs(afrError) > tolerance
      \* |afrError / targetAFR * 100| > 7.0
      meetsMinimumDeviation ==
        row.targetAFR > 0 /\ Abs(afrError) * 100 > minDeviationPercent * row.targetAFR
      shouldCreateEvent ==
        mode.targetMismatch \/ (isSignificantDeviation /\ meetsMinimumDeviation)
  IN IF LowThrottleSuppressed(row, mode.targetMismatch) THEN <<>>
     ELSE IF shouldCreateEvent
     THEN << [index |-> index, time |-> row.time,
              targetAFR |-> row.targetAFR, measuredAFR |-> row.measuredAFR,
              afrError |-> afrError, throttle |-> row.throttle, load |-> row.load,
              eventType |-> IF mode.targetMismatch THEN "target_mismatch" ELSE eventType,
              isPEMode |-> mode.isPEMode,
              targetMismatch |-> mode.targetMismatch] >>
     ELSE <<>>

AFRRawEvents(rows, loaded) ==
  Concat([i \in 1..Len(rows) |-> AFRRowEvents(rows[i], i - 1, loaded)])

\* AFRAnalyzer.createGroupedEvent (the context averages are left out)
AFRCreateGroupedEvent(eventGroup) ==
  LET mostSevereEvent ==
        eventGroup[ReduceMax([k \in 1..Len(eventGroup) |-> Abs(eventGroup[k].afrError)])]
      startEvent == eventGroup[1]
  IN [index |-> mostSevereEvent.index,
      time |-> eventGroup[1].time,
      endTime |-> eventGroup[Len(eventGroup)].time,
      duration |-> eventGroup[Len(eventGroup)].time - eventGroup[1].time,
      targetAFR |-> startEvent.targetAFR,
      measuredAFR |-> startEvent.measuredAFR,
      afrError |-> mostSevereEvent.afrError,
      eventType |-> mostSevereEvent.eventType,
      eventCount |-> Len(eventGroup),
      members |-> MembersOf(eventGroup)]

\* AFRAnalyzer.groupEventsByType: the same loop as groupEventsByTime
AFRGroupEventsByType(eventList) ==
  LET groups == groupEventsByTime(eventList, afrGroupingTimeWindow)
  IN [g \in 1..Len(groups) |-> AFRCreateGroupedEvent(groups[g])]

groupAFREvents(events) ==
  IF events = <<>> THEN <<>>
  ELSE LET leanEvents == SelectSeq(events, LAMBDA e : e.eventType = "lean")
           richEvents == SelectSeq(events, LAMBDA e : e.eventType = "rich")
           normalEvents == SelectSeq(events, LAMBDA e : e.eventType = "normal")
           groupedLean == AFRGroupEventsByType(leanEvents)
           groupedRich == AFRGroupEventsByType(richEvents)
           groupedNormal == AFRGroupEventsByType(normalEvents)
       IN SortByTime(groupedLean \o groupedRich \o groupedNormal)

\* afrError = measuredAFR - targetAFR of the rows that are not skipped, in order
AFRErrors(rows) ==
  LET valid == SelectSeq(rows, LAMBDA row : ~AFRRowSkipped(row))
  IN [k \in 1..Len(valid) |-> valid[k].measuredAFR - valid[k].targetAFR]

\* the largest of 0 and the values
MaxOrZero(values) ==
  CHOOSE m \in {0} \cup {values[k] : k \in 1..Len(values)} :
    \A k \in 1..Len(values) : values[k] <= m

AFRStatistics(rows, groupedEvents) ==
  [totalDataPoints |-> Len(SelectSeq(rows, LAMBDA row : ~AFRRowSkipped(row))),
   avgError |-> IF AFRErrors(rows) = <<>> THEN Rat(0)
                ELSE Frac(SumOf(AFRErrors(rows)), Len(AFRErrors(rows))),
   avgErrorAbs |-> IF AFRErrors(rows) = <<>> THEN Rat(0)
                   ELSE Frac(SumOf([k \in 1..Len(AFRErrors(rows)) |->
                                      Abs(AFRErrors(rows)[k])]),
                             Len(AFRErrors(rows))),
   maxLean |-> MaxOrZero(AFRErrors(rows)),
   maxRich |-> -MaxOrZero([k \in 1..Len(AFRErrors(rows)) |-> -AFRErrors(rows)[k]]),
   leanEvents |-> Len(SelectSeq(groupedEvents, LAMBDA e : e.eventType = "lean")),
   richEvents |-> Len(SelectSeq(groupedEvents, LAMBDA e : e.eventType = "rich")),
   pemodeEvents |-> Len(SelectSeq(groupedEvents, LAMBDA e : Truthy(e, "isPEMode"))),
   targetMismatchEvents |->
     Len(SelectSeq(groupedEvents, LAMBDA e : Truthy(e, "targetMismatch")))]

AFRLoadRow ==
  /\ component = "afr"
  /\ ~analysisResults.present
  /\ Len(data) < MaxRows
  /\ \E kind \in AFRRowKinds, dt \in AFRDeltas :
       LET time == IF data = <<>> THEN 0 ELSE data[Len(data)].time + dt
       IN data' = Append(data, [time |-> time] @@ kind)
  /\ UNCHANGED <<component, tuneLoaded, rawEvents, grouped, analysisResults>>
  /\ UNCHANGED <<appStateVars, logScoreVars, autotuneVars, callVars>>

\* AFRAnalyzer.analyze() (both lambda columns are present)
AFRAnalyze ==
  /\ component = "afr"
  /\ ~analysisResults.present
  /\ data # <<>>
  /\ LET events == AFRRawEvents(data, tuneLoaded)
         groupedEvents == groupAFREvents(events)
     IN /\ rawEvents' = events
        /\ grouped' = groupedEvents
        /\ analysisResults' = [present |-> TRUE, events |-> groupedEvents,
                               statistics |-> AFRStatistics(data, groupedEvents),
                               error |-> "none"]
  /\ UNCHANGED <<component, tuneLoaded, data>>
  /\ UNCHANGED <<appStateVars, logScoreVars, autotuneVars, callVars>>

AFRNext == AFRLoadRow \/ AFRAnalyze

-----------------------------------------------------------------------------
(* KnockDetector.  Knock retard in 1/10000 degree, load in 1/100 g/rev. *)

KNOCK_THRESHOLD == -1
severityThresholds == [critical |-> -60000, severe |-> -40000, moderate |-> -20000]
knockGroupingTimeWindow == 100
knockRpmMin == 1000
knockSensitivityLowLoad == 81
lowLoadAdjustment == 5000
recoveryWindow == 2000
recoveryMaxPoints == 100
persistentKnockPoints == 20
\* knockRetardDecay * 10 / 2 degree per second, as 1/10000 degree per ms
slowRecoveryRate == 10

\* the rows a knock log is made of (knock retard column present)
KnockRowKinds ==
  { [knockRetard |->      0, rpm |-> 3000, load |-> 100, throttle |-> 60],
    [knockRetard |-> -14000, rpm |-> 3000, load |-> 100, throttle |-> 60],
    [knockRetard |-> -18000, rpm |-> 3000, load |->  50, throttle |-> 20],
    [knockRetard |-> -42000, rpm |-> 3000, load |-> 100, throttle |-> 60],
    [knockRetard |-> -62000, rpm |-> 3000, load |-> 100, throttle |-> 60],
    [knockRetard |-> -42000, rpm |->  800, load |->  50, throttle |-> 20] }

\* time steps between consecutive rows of a knock log
KnockDeltas == {50, 100, 101}

\* logs that are one run of equal samples: n rows from time start, dt apart
MaxRunLength == 5

KnockRun(start, n, dt, knockRetard, load) ==
  [i \in 1..n |-> [time |-> start + (i - 1) * dt, knockRetard |-> knockRetard,
                   rpm |-> 3000, load |-> load, throttle |-> 60]]

KnockRuns ==
  {KnockRun(start, n, dt, knockRetard, load) :
     start \in {0, 10000}, n \in 1..MaxRunLength, dt \in {10, 100, 101},
     knockRetard \in {-50000, -62000, -18000, 0}, load \in {50, 100}}

categorizeSeverityAnyLoad(knockRetard, load) ==
  IF knockRetard < severityThresholds.critical THEN "critical"
  ELSE IF knockRetard < severityThresholds.severe THEN "severe"
  ELSE IF knockRetard < severityThresholds.moderate THEN "moderate"
  ELSE "mild"
categorizeSeverity(knockRetard, load) ==
  LET adjustedThreshold == IF load < knockSensitivityLowLoad THEN lowLoadAdjustment ELSE 0
  IN IF knockRetard < severityThresholds.critical + adjustedThreshold THEN "critical"
     ELSE IF knockRetard < severityThresholds.severe + adjustedThreshold THEN "severe"
     ELSE IF knockRetard < severityThresholds.moderate + adjustedThreshold THEN "moderate"
     ELSE "mild"

\* the arguments categorizeSeverity is applied to on its own: knock retards at
\* and next to every threshold, loads at and next to the low-load boundary
SeverityRetards ==
  {-80000, -60001, -60000, -59999, -55001, -55000, -54999, -40001, -40000, -39999,
   -35001, -35000, -34999, -20001, -20000, -19999, -15001, -15000, -14999, -2, -1, 0}

SeverityLoads == {0, 80, 81, 150}

\* one call of categorizeSeverity(knockRetard, load) on the arguments held in data
CategorizeSeverity ==
  /\ component = "severity"
  /\ returned.method = "none"
  /\ returned' = [method |-> "categorizeSeverity", isNull |-> FALSE,
                  value |-> [severity |-> categorizeSeverity(data[1].knockRetard,
                                                             data[1].load)],
                  rows |-> Len(data)]
  /\ UNCHANGED <<component, analyzerVars, columns>>
  /\ UNCHANGED <<appStateVars, logScoreVars, autotuneVars>>

\* one iteration of the forEach of detectKnockEvents(); index is 0-based
KnockRowEvents(row, index, loaded) ==
  IF row.knockRetard < KNOCK_THRESHOLD /\ ~(row.rpm < knockRpmMin)
  THEN << [index |-> index, time |-> row.time, knockRetard |-> row.knockRetard,
           rpm |-> row.rpm, throttle |-> row.throttle, load |-> row.load,
           severity |-> categorizeSeverity(row.knockRetard, row.load),
           isPEMode |-> loaded /\ isPEModeActive(row.load, row.throttle),
           isLowLoad |-> row.load < knockSensitivityLowLoad,
           eventType |-> "knock"] >>
  ELSE <<>>

KnockRawEvents(rows, loaded) ==
  Concat([i \in 1..Len(rows) |-> KnockRowEvents(rows[i], i - 1, loaded)])

\* KnockDetector.createGroupedEvent (the context averages other than load are left out)
KnockCreateGroupedEvent(eventGroup) ==
  LET mostSevereEvent ==
        eventGroup[ReduceMax([k \in 1..Len(eventGroup) |-> -eventGroup[k].knockRetard])]
      loadSum == SumOf([k \in 1..Len(eventGroup) |-> eventGroup[k].load])
  IN [index |-> mostSevereEvent.index,
      time |-> eventGroup[1].time,
      endTime |-> eventGroup[Len(eventGroup)].time,
      duration |-> eventGroup[Len(eventGroup)].time - eventGroup[1].time,
      knockRetard |-> mostSevereEvent.knockRetard,
      severity |-> mostSevereEvent.severity,
      isPEMode |-> \E k \in 1..Len(eventGroup) : eventGroup[k].isPEMode,
      isLowLoad |-> loadSum < knockSensitivityLowLoad * Len(eventGroup),
      eventType |-> "knock",
      eventCount |-> Len(eventGroup),
      members |-> MembersOf(eventGroup),
      recoveryRate |-> [isNull |-> TRUE, num |-> 0, den |-> 1],
      recoveryTime |-> [isNull |-> TRUE, ms |-> 0],
      slowRecovery |-> FALSE,
      persistentKnock |-> FALSE]

groupKnockEvents(events) ==
  LET groups == groupEventsByTime(events, knockGroupingTimeWindow)
  IN [g \in 1..Len(groups) |-> KnockCreateGroupedEvent(groups[g])]

\* the loop of analyzeKnockRecovery collecting recoveryPoints from 0-based row i
RECURSIVE RecoveryPoints(_, _, _, _, _)
RecoveryPoints(rows, i, eventEndIndex, recoveryEndTime, points) ==
  IF ~(i < Len(rows) /\ i < eventEndIndex + recoveryMaxPoints) THEN points
  ELSE LET row == rows[i + 1]
       IN IF row.time > recoveryEndTime THEN points
          ELSE IF row.knockRetard < KNOCK_THRESHOLD
          THEN RecoveryPoints(rows, i + 1, eventEndIndex, recoveryEndTime,
                              Append(points, [time |-> row.time,
                                              knockRetard |-> row.knockRetard]))
          ELSE points

\* the body of the forEach of analyzeKnockRecovery for one grouped event
KnockRecovery(rows, event) ==
  LET eventEndIndex == event.index + event.eventCount
      eventEndTime == event.time + event.duration
      recoveryPoints == RecoveryPoints(rows, eventEndIndex, eventEndIndex,
                                       eventEndTime + recoveryWindow, <<>>)
      n == Len(recoveryPoints)
  IN IF n > 1
     THEN LET timeDiff == recoveryPoints[n].time - recoveryPoints[1].time
              retardDiff == recoveryPoints[n].knockRetard - recoveryPoints[1].knockRetard
          IN [event EXCEPT
                !.recoveryRate = IF timeDiff > 0
                                 THEN [isNull |-> FALSE, num |-> retardDiff, den |-> timeDiff]
                                 ELSE [isNull |-> FALSE, num |-> 0, den |-> 1],
                !.recoveryTime = [isNull |-> FALSE, ms |-> timeDiff],
                !.slowRecovery = IF timeDiff > 0
                                 THEN Abs(retardDiff) < slowRecoveryRate * timeDiff
                                 ELSE TRUE,
                !.persistentKnock = n > persistentKnockPoints]
     ELSE IF n = 0
     THEN [event EXCEPT !.recoveryRate = [isNull |-> FALSE, num |-> 0, den |-> 1],
                        !.recoveryTime = [isNull |-> FALSE, ms |-> 0]]
     ELSE event

analyzeKnockRecovery(rows, events) ==
  [k \in 1..Len(events) |-> KnockRecovery(rows, events[k])]

KnockLoadRow ==
  /\ component = "knock"
  /\ ~analysisResults.present
  /\ Len(data) < MaxRows
  /\ \E kind \in KnockRowKinds, dt \in KnockDeltas :
       LET time == IF data = <<>> THEN 0 ELSE data[Len(data)].time + dt
       IN data' = Append(data, [time |-> time] @@ kind)
  /\ UNCHANGED <<component, tuneLoaded, rawEvents, grouped, analysisResults>>
  /\ UNCHANGED <<appStateVars, logScoreVars, autotuneVars, callVars>>

\* KnockDetector.detectKnockEvents() (the knock retard column is present)
KnockDetect ==
  /\ component = "knock"
  /\ ~analysisResults.present
  /\ data # <<>>
  /\ LET events == KnockRawEvents(data, tuneLoaded)
         groupedEvents == groupKnockEvents(events)
     IN /\ rawEvents' = events
        /\ grouped' = groupedEvents
        /\ analysisResults' = [present |-> TRUE,
                               events |-> analyzeKnockRecovery(data, groupedEvents),
                               error |-> "none"]
  /\ UNCHANGED <<component, tuneLoaded, data>>
  /\ UNCHANGED <<appStateVars, logScoreVars, autotuneVars, callVars>>

KnockNext == KnockLoadRow \/ KnockDetect

-----------------------------------------------------------------------------
(* FuelTrimAnalyzer.  Trim in 1/10 percent. *)

abnormalThreshold == 100
fuelTrimGroupingTimeWindow == 500
minimumDuration == 300
peTrimThreshold == 50
trimLimitWarning == 200
trimLimitMax == 250

\* the rows a fuel trim log is made of (short term trim column present)
FuelTrimRowKinds ==
  { [shortTermTrim |->    0, load |->  50, throttle |-> 20],
    [shortTermTrim |->  120, load |->  50, throttle |-> 20],
    [shortTermTrim |-> -120, load |->  50, throttle |-> 20],
    [shortTermTrim |->  210, load |->  50, throttle |-> 20],
    [shortTermTrim |->   60, load |-> 150, throttle |-> 60],
    [shortTermTrim |->   50, load |-> 150, throttle |-> 60],
    [shortTermTrim |-> -110, load |-> 150, throttle |-> 60] }

\* time steps between consecutive rows of a fuel trim log
FuelTrimDeltas == {300, 500, 501}

\* one iteration of the forEach of analyze(): the events it pushes for a row
FuelTrimRowEvents(row, index, loaded) ==
  LET isPEMode == loaded /\ isPEModeActive(row.load, row.throttle)
      trim == row.shortTermTrim
      eventType == IF trim > abnormalThreshold THEN "positive"
                   ELSE IF trim < -abnormalThreshold THEN "negative"
                   ELSE "normal"
      severity == IF Abs(trim) > abnormalThreshold /\ Abs(trim) >= trimLimitMax
                  THEN "critical"
                  ELSE IF Abs(trim) > abnormalThreshold /\ Abs(trim) >= trimLimitWarning
                  THEN "severe"
                  ELSE "normal"
  IN IF isPEMode
     THEN IF Abs(trim) > peTrimThreshold
          THEN << [index |-> index, time |-> row.time, shortTermTrim |-> trim,
                   throttle |-> row.throttle, load |-> row.load,
                   eventType |-> IF trim > 0 THEN "positive" ELSE "negative",
                   isPEMode |-> TRUE, isAbnormalInPEMode |-> TRUE] >>
          ELSE <<>>
     ELSE IF eventType # "normal"
          THEN << [index |-> index, time |-> row.time, shortTermTrim |-> trim,
                   throttle |-> row.throttle, load |-> row.load,
                   eventType |-> eventType, severity |-> severity,
                   isPEMode |-> FALSE] >>
          ELSE <<>>

FuelTrimRawEvents(rows, loaded) ==
  Concat([i \in 1..Len(rows) |-> FuelTrimRowEvents(rows[i], i - 1, loaded)])

\* FuelTrimAnalyzer.createGroupedEvent (the context averages are left out)
FuelTrimCreateGroupedEvent(eventGroup) ==
  LET mostSevereEvent ==
        eventGroup[ReduceMax([k \in 1..Len(eventGroup) |-> Abs(eventGroup[k].shortTermTrim)])]
  IN [index |-> mostSevereEvent.index,
      time |-> eventGroup[1].time,
      endTime |-> eventGroup[Len(eventGroup)].time,
      duration |-> eventGroup[Len(eventGroup)].time - eventGroup[1].time,
      shortTermTrim |-> mostSevereEvent.shortTermTrim,
      eventType |-> mostSevereEvent.eventType,
      severity |-> IF "severity" \in DOMAIN mostSevereEvent
                   THEN mostSevereEvent.severity ELSE "normal",
      isPEMode |-> \E k \in 1..Len(eventGroup) : eventGroup[k].isPEMode,
      isAbnormalInPEMode |->
        \E k \in 1..Len(eventGroup) : Truthy(eventGroup[k], "isAbnormalInPEMode"),
      eventCount |-> Len(eventGroup),
      members |-> MembersOf(eventGroup)]

FuelTrimGroupEventsByType(eventList) ==
  LET groups == groupEventsByTime(eventList, fuelTrimGroupingTimeWindow)
  IN [g \in 1..Len(groups) |-> FuelTrimCreateGroupedEvent(groups[g])]

groupFuelTrimEvents(events) ==
  IF events = <<>> THEN <<>>
  ELSE LET positiveEvents == SelectSeq(events, LAMBDA e : e.eventType = "positive")
           negativeEvents == SelectSeq(events, LAMBDA e : e.eventType = "negative")
       IN SortByTime(FuelTrimGroupEventsByType(positiveEvents)
                     \o FuelTrimGroupEventsByType(negativeEvents))

\* the samples analyze() does not return early on: those outside PE mode
FuelTrimClosedLoopRows(rows, loaded) ==
  SelectSeq(rows, LAMBDA row : ~(loaded /\ isPEModeActive(row.load, row.throttle)))

\* the statistics of analysisResults (timeRange, the data processor's, is left out)
FuelTrimStatistics(rows, loaded, filteredEvents) ==
  LET counted == FuelTrimClosedLoopRows(rows, loaded)
      validDataPointCount == Len(counted)
      trims == [i \in 1..validDataPointCount |-> counted[i].shortTermTrim]
      totalTrim == SumOf(trims)
      totalTrimAbs == SumOf([i \in 1..validDataPointCount |-> Abs(trims[i])])
      inTargetCount ==
        Len(SelectSeq(trims, LAMBDA t : Abs(t) <= abnormalThreshold))
  IN [totalDataPoints |-> validDataPointCount,
      avgTrim |-> IF validDataPointCount > 0
                  THEN Frac(totalTrim, validDataPointCount) ELSE Rat(0),
      avgTrimAbs |-> IF validDataPointCount > 0
                     THEN Frac(totalTrimAbs, validDataPointCount) ELSE Rat(0),
      maxPositive |-> MaxOrZero(trims),
      maxNegative |-> 0 - MaxOrZero([i \in 1..validDataPointCount |-> 0 - trims[i]]),
      inTargetPercent |-> IF validDataPointCount > 0
                          THEN Frac(inTargetCount * 100, validDataPointCount) ELSE Rat(0),
      abnormalEvents |-> Len(filteredEvents),
      positiveEvents |-> Len(SelectSeq(filteredEvents, LAMBDA e : e.eventType = "positive")),
      negativeEvents |-> Len(SelectSeq(filteredEvents, LAMBDA e : e.eventType = "negative"))]

FuelTrimLoadRow ==
  /\ component = "fueltrim"
  /\ ~analysisResults.present
  /\ Len(data) < MaxRows
  /\ \E kind \in FuelTrimRowKinds, dt \in FuelTrimDeltas :
       LET time == IF data = <<>> THEN 0 ELSE data[Len(data)].time + dt
       IN data' = Append(data, [time |-> time] @@ kind)
  /\ UNCHANGED <<component, tuneLoaded, rawEvents, grouped, analysisResults>>
  /\ UNCHANGED <<appStateVars, logScoreVars, autotuneVars, callVars>>

\* FuelTrimAnalyzer.analyze() (the short term trim column is present)
FuelTrimAnalyze ==
  /\ component = "fueltrim"
  /\ ~analysisResults.present
  /\ data # <<>>
  /\ LET events == FuelTrimRawEvents(data, tuneLoaded)
         groupedEvents == groupFuelTrimEvents(events)
         filteredEvents == SelectSeq(groupedEvents, LAMBDA e : e.duration >= minimumDuration)
     IN /\ rawEvents' = events
        /\ grouped' = groupedEvents
        /\ analysisResults' = [present |-> TRUE, events |-> filteredEvents,
                               statistics |->
                                 FuelTrimStatistics(data, tuneLoaded, filteredEvents),
                               error |-> "none"]
  /\ UNCHANGED <<component, tuneLoaded, data>>
  /\ UNCHANGED <<appStateVars, logScoreVars, autotuneVars, callVars>>

FuelTrimNext == FuelTrimLoadRow \/ FuelTrimAnalyze

-----------------------------------------------------------------------------
(* IAMAnalyzer.  IAM in 1/100 of the 0..1 scale; no iam_init parameter in  *)
(* the calibration, so iamInit keeps its constructor value.                *)

lowThreshold == 30
criticalThreshold == 20
iamGroupingTimeWindow == 1000
iamInit == 50
stuckLowThreshold == 5000
iamScaleLimit == 100
iamEventDrop == 10
noTime == -1

\* the logged IAM values (0..1 scale, and 25 on the 0..100 scale)
IAMRowKinds == {0, 15, 25, 2500, 35, 100}

\* time steps between consecutive rows of an IAM log
IAMDeltas == {1000, 2500, 5000}

\* Normalize IAM value (could be 0-1 or 0-100)
NormalizeIAM(raw) == IF raw > iamScaleLimit THEN raw \div 100 ELSE raw

Min(a, b) == IF a < b THEN a ELSE b

IAMLoopInit ==
  [events |-> <<>>, validDataPointCount |-> 0, minIAM |-> 100,
   currentIAM |-> iamInit, previousIAM |-> iamInit,
   stuckLowStartTime |-> noTime, stuckLowDuration |-> 0]

\* one iteration of the forEach of analyze() on the loop state st
IAMRowStep(st, row, index) ==
  LET iam == NormalizeIAM(row.iam)
      time == row.time
      minIAM == Min(st.minIAM, iam)
      iamDrop == st.previousIAM - iam
      stuckEvents ==
        IF ~(iam < lowThreshold) /\ st.stuckLowStartTime # noTime
           /\ time - st.stuckLowStartTime >= stuckLowThreshold
        THEN << [index |-> index, time |-> st.stuckLowStartTime, endTime |-> time,
                 duration |-> time - st.stuckLowStartTime, iam |-> iam,
                 minIAM |-> minIAM,
                 severity |-> IF iam < criticalThreshold THEN "critical" ELSE "severe",
                 eventType |-> "stuck_low"] >>
        ELSE <<>>
      eventType == IF iam < lowThreshold THEN "low_iam" ELSE "normal"
      severity == IF iam < criticalThreshold THEN "critical"
                  ELSE IF iam < lowThreshold THEN "severe"
                  ELSE "normal"
      lowEvents ==
        IF eventType # "normal" \/ iamDrop > iamEventDrop
        THEN << [index |-> index, time |-> time, iam |-> iam,
                 previousIAM |-> st.previousIAM, dropAmount |-> iamDrop,
                 eventType |-> eventType, severity |-> severity] >>
        ELSE <<>>
  IN IF iam <= 0 THEN st
     ELSE [events |-> st.events \o stuckEvents \o lowEvents,
           validDataPointCount |-> st.validDataPointCount + 1,
           minIAM |-> minIAM,
           currentIAM |-> iam,
           previousIAM |-> iam,
           stuckLowStartTime |->
             IF iam < lowThreshold
             THEN (IF st.stuckLowStartTime = noTime THEN time ELSE st.stuckLowStartTime)
             ELSE noTime,
           stuckLowDuration |->
             IF iam < lowThreshold /\ st.stuckLowStartTime # noTime
                /\ time - st.stuckLowStartTime > st.stuckLowDuration
             THEN time - st.stuckLowStartTime
             ELSE st.stuckLowDuration]

RECURSIVE IAMLoop(_, _, _)
IAMLoop(rows, i, st) ==
  IF i > Len(rows) THEN st
  ELSE IAMLoop(rows, i + 1, IAMRowStep(st, rows[i], i - 1))

\* IAMAnalyzer.createGroupedEvent (the context averages are left out)
IAMCreateGroupedEvent(eventGroup) ==
  LET mostSevereEvent ==
        eventGroup[ReduceMax([k \in 1..Len(eventGroup) |-> -eventGroup[k].iam])]
  IN [index |-> mostSevereEvent.index,
      time |-> eventGroup[1].time,
      endTime |-> eventGroup[Len(eventGroup)].time,
      duration |-> eventGroup[Len(eventGroup)].time - eventGroup[1].time,
      iam |-> mostSevereEvent.iam,
      minIAM |-> mostSevereEvent.iam,
      dropAmount |-> IF "dropAmount" \in DOMAIN mostSevereEvent
                     THEN mostSevereEvent.dropAmount ELSE 0,
      eventType |-> mostSevereEvent.eventType,
      severity |-> mostSevereEvent.severity,
      eventCount |-> Len(eventGroup)]

\* the loop of groupIAMEvents: a group also ends where the event type changes
RECURSIVE IAMGroupLoop(_, _, _, _)
IAMGroupLoop(sortedEvents, i, currentGroup, groupedEvents) ==
  IF i > Len(sortedEvents)
  THEN Append(groupedEvents, IAMCreateGroupedEvent(currentGroup))
  ELSE LET currentEvent == sortedEvents[i]
           lastEventInGroup == currentGroup[Len(currentGroup)]
           timeDiff == currentEvent.time - lastEventInGroup.time
       IN IF timeDiff <= iamGroupingTimeWindow
             /\ currentEvent.eventType = lastEventInGroup.eventType
          THEN IAMGroupLoop(sortedEvents, i + 1, Append(currentGroup, currentEvent),
                            groupedEvents)
          ELSE IAMGroupLoop(sortedEvents, i + 1, <<currentEvent>>,
                            Append(groupedEvents, IAMCreateGroupedEvent(currentGroup)))

groupIAMEvents(events) ==
  IF events = <<>> THEN <<>>
  ELSE LET sortedEvents == SortByTime(events)
       IN IAMGroupLoop(sortedEvents, 2, <<sortedEvents[1]>>, <<>>)

IAMStatistics(st, groupedEvents) ==
  [totalDataPoints |-> st.validDataPointCount,
   currentIAM |-> st.currentIAM,
   minIAM |-> st.minIAM,
   lowIAMEvents |-> Len(SelectSeq(groupedEvents,
                      LAMBDA e : e.severity = "severe" \/ e.severity = "critical")),
   criticalIAMEvents |-> Len(SelectSeq(groupedEvents, LAMBDA e : e.severity = "critical")),
   stuckLowEvents |-> Len(SelectSeq(groupedEvents, LAMBDA e : e.eventType = "stuck_low"))]

IAMLoadRow ==
  /\ component = "iam"
  /\ ~analysisResults.present
  /\ Len(data) < MaxRows
  /\ \E raw \in IAMRowKinds, dt \in IAMDeltas :
       LET time == IF data = <<>> THEN 0 ELSE data[Len(data)].time + dt
       IN data' = Append(data, [time |-> time, iam |-> raw])
  /\ UNCHANGED <<component, tuneLoaded, rawEvents, grouped, analysisResults>>
  /\ UNCHANGED <<appStateVars, logScoreVars, autotuneVars, callVars>>

\* IAMAnalyzer.analyze() (the IAM column is present)
IAMAnalyze ==
  /\ component = "iam"
  /\ ~analysisResults.present
  /\ data # <<>>
  /\ LET st == IAMLoop(data, 1, IAMLoopInit)
         groupedEvents == groupIAMEvents(st.events)
     IN /\ rawEvents' = st.events
        /\ grouped' = groupedEvents
        /\ analysisResults' = [present |-> TRUE, events |-> groupedEvents,
                               statistics |-> IAMStatistics(st, groupedEvents),
                               error |-> "none"]
  /\ UNCHANGED <<component, tuneLoaded, data>>
  /\ UNCHANGED <<appStateVars, logScoreVars, autotuneVars, callVars>>

IAMNext == IAMLoadRow \/ IAMAnalyze

-----------------------------------------------------------------------------
(* LogScoreTab: the issue compiler over tabManager's cached analyses *)

MaxCachedEvents == 2

Tabs == {"knock", "boost", "fueling", "fueltrim", "longtermfueltrim",
         "iam", "loadlimit", "coolanttemp", "iat"}

leanDowngradePercent == 5

\* the grouped events the analyzers leave in the cache (the fields that
\* compileAllIssues reads); lambda in 1/1000
CachedEventKinds ==
  [tab : {"knock"}, eventType : {"knock"}, severity : {"severe"},
   targetAFR : {0}, measuredAFR : {0}]
  \cup [tab : {"boost"}, eventType : {"overshoot", "undershoot"}, severity : {"undefined"},
        targetAFR : {0}, measuredAFR : {0}]
  \cup [tab : {"fueling"}, eventType : {"lean"}, severity : {"undefined"},
        targetAFR : {1000}, measuredAFR : {1040, 1100}]
  \cup [tab : {"fueling"}, eventType : {"rich", "normal"}, severity : {"undefined"},
        targetAFR : {1000}, measuredAFR : {900}]
  \cup [tab : {"fueltrim"}, eventType : {"positive", "negative"},
        severity : {"normal"}, targetAFR : {0}, measuredAFR : {0}]
  \cup [tab : {"longtermfueltrim"}, eventType : {"positive"},
        severity : {"normal"}, targetAFR : {0}, measuredAFR : {0}]
  \cup [tab : {"iam"}, eventType : {"low_iam"}, severity : {"critical", "severe"},
        targetAFR : {0}, measuredAFR : {0}]
  \cup [tab : {"iam"}, eventType : {"normal"}, severity : {"normal"},
        targetAFR : {0}, measuredAFR : {0}]
  \cup [tab : {"loadlimit"}, eventType : {"limit_violation"},
        severity : {"critical", "moderate"}, targetAFR : {0}, measuredAFR : {0}]
  \cup [tab : {"coolanttemp"}, eventType : {"high_temp"},
        severity : {"critical", "moderate"}, targetAFR : {0}, measuredAFR : {0}]
  \cup [tab : {"iat"}, eventType : {"high_temp"},
        severity : {"severe", "mild"}, targetAFR : {0}, measuredAFR : {0}]

CachedEventTimes == {0, 1000}

Issue(event, sourceId, eventType, severity) ==
  [time |-> event.time, sourceId |-> sourceId, eventType |-> eventType,
   severity |-> severity]

\* severity of IAM and load limit issues
SeverityThreeLevel(event) ==
  IF event.severity = "critical" THEN "severe"
  ELSE IF event.severity = "severe" THEN "high"
  ELSE "low"

\* severity of coolant temperature and intake air temperature issues
SeverityTemperature(event) ==
  IF event.severity = "critical" THEN "severe"
  ELSE IF event.severity = "severe" THEN "high"
  ELSE IF event.severity = "moderate" THEN "moderate"
  ELSE "low"

\* severity of an AFR issue: lean is high unless within 5% of target
SeverityAFR(event) ==
  LET isLean == event.eventType = "lean"
      withinFivePercent ==
        Abs(event.measuredAFR - event.targetAFR) * 100
          <= leanDowngradePercent * event.targetAFR
  IN IF isLean /\ event.targetAFR > 0 /\ withinFivePercent THEN "low"
     ELSE IF isLean THEN "high"
     ELSE "low"

\* the issue pushed for one cached event of a tab (none for skipped events)
IssuesOfEvent(tab, event) ==
  CASE tab = "knock" -> << Issue(event, "knock", "Knock", "high") >>
    [] tab = "boost" ->
         IF event.eventType # "normal"
         THEN LET isOvershoot == event.eventType = "overshoot"
              IN << Issue(event, "boost",
                          IF isOvershoot THEN "Overshoot" ELSE "Undershoot",
                          IF isOvershoot THEN "high" ELSE "low") >>
         ELSE <<>>
    [] tab = "fueling" ->
         IF event.eventType # "normal"
         THEN << Issue(event, "afr",
                       IF event.eventType = "lean" THEN "Lean" ELSE "Rich",
                       SeverityAFR(event)) >>
         ELSE <<>>
    [] tab \in {"fueltrim", "longtermfueltrim"} ->
         LET isPositive == event.eventType = "positive"
         IN << Issue(event, tab,
                     IF isPositive THEN "Positive Trim" ELSE "Negative Trim",
                     IF isPositive THEN "high" ELSE "low") >>
    [] tab = "iam" ->
         IF event.eventType # "normal"
         THEN << Issue(event, "iam",
                       IF event.eventType = "stuck_low" THEN "IAM Stuck Low" ELSE "IAM Drop",
                       SeverityThreeLevel(event)) >>
         ELSE <<>>
    [] tab = "loadlimit" ->
         IF event.eventType # "normal"
         THEN << Issue(event, "loadlimit",
                       IF event.eventType = "limit_violation"
                       THEN "Load Limit Violation" ELSE "Near Load Limit",
                       SeverityThreeLevel(event)) >>
         ELSE <<>>
    [] tab = "coolanttemp" ->
         IF event.eventType # "normal"
         THEN << Issue(event, "coolanttemp",
                       IF event.eventType = "high_temp"
                       THEN "High Temperature" ELSE "Elevated Temperature",
                       SeverityTemperature(event)) >>
         ELSE <<>>
    [] tab = "iat" ->
         IF event.eventType # "normal"
         THEN << Issue(event, "iat",
                       IF event.eventType = "high_temp" THEN "High IAT" ELSE "Low IAT",
                       SeverityTemperature(event)) >>
         ELSE <<>>

IssuesOfTab(cached, tab) ==
  Concat([k \in 1..Len(cached[tab]) |-> IssuesOfEvent(tab, cached[tab][k])])

\* the tabs in the order compileAllIssues reads their cached analyses
TabOrder == <<"knock", "boost", "fueling", "fueltrim", "longtermfueltrim",
              "iam", "loadlimit", "coolanttemp", "iat">>

\* compileAllIssues(): the new value of this.compiledIssues
compileAllIssuesWithShortTerm(cached, showShortTerm) ==
  SortByTime(Concat([k \in 1..Len(TabOrder) |-> IssuesOfTab(cached, TabOrder[k])]))
compileAllIssues(cached, showShortTerm) ==
  SortByTime(IssuesOfTab(cached, "knock")
             \o IssuesOfTab(cached, "boost")
             \o IssuesOfTab(cached, "fueling")
             \o (IF showShortTerm THEN IssuesOfTab(cached, "fueltrim") ELSE <<>>)
             \o IssuesOfTab(cached, "longtermfueltrim")
             \o IssuesOfTab(cached, "iam")
             \o IssuesOfTab(cached, "loadlimit")
             \o IssuesOfTab(cached, "coolanttemp")
             \o IssuesOfTab(cached, "iat"))

CachedEventCount == SumOf([k \in 1..Len(TabOrder) |-> Len(cache[TabOrder[k]])])

\* an analysis tab caches one more grouped event with tabManager
CacheAnalysis ==
  /\ component = "logscore"
  /\ CachedEventCount < MaxCachedEvents
  /\ \E kind \in CachedEventKinds, time \in CachedEventTimes :
       cache' = [cache EXCEPT ![kind.tab] = Append(@, [time |-> time] @@ kind)]
  /\ UNCHANGED <<component, showShortTermTrim, compiledIssues>>
  /\ UNCHANGED <<appStateVars, analyzerVars, autotuneVars, callVars>>

\* LogScoreTab.render()
Render ==
  /\ component = "logscore"
  /\ compiledIssues' = compileAllIssues(cache, showShortTermTrim)
  /\ UNCHANGED <<component, cache, showShortTermTrim>>
  /\ UNCHANGED <<appStateVars, analyzerVars, autotuneVars, callVars>>

\* the change listener of the short term fuel trim toggle
ToggleShortTermTrim ==
  /\ component = "logscore"
  /\ \E checked \in BOOLEAN :
       /\ showShortTermTrim' = checked
       /\ compiledIssues' = compileAllIssues(cache, checked)
  /\ UNCHANGED <<component, cache>>
  /\ UNCHANGED <<appStateVars, analyzerVars, autotuneVars, callVars>>

LogScoreNext == CacheAnalysis \/ Render \/ ToggleShortTermTrim

-----------------------------------------------------------------------------
(* AutotuneEngine.  JavaScript numbers that are not integers are exact     *)
(* fractions [n |-> numerator, d |-> denominator > 0] in lowest terms.     *)
(* rpm in 1/min, load in 1/100 g/rev, lambda in 1/1000, MAF voltage in     *)
(* 1/10 V, trims and change limits in percent.                             *)

MaxLogRows == 2
MaxAnalyzeCalls == 2

\* x || dflt on a number: 0 (like a missing option) is falsy
OrDefault(x, dflt) == IF x = 0 THEN dflt ELSE x

defaultMinSamples == 5
defaultChangeLimit == 5
minSamplesFloor == 1
changeLimitFloor == 0

\* the first lines of analyze(): the options as the engine uses them
ParseOptions(opts) ==
  [minSamples |-> IF OrDefault(opts.minSamples, defaultMinSamples) < minSamplesFloor
                  THEN minSamplesFloor
                  ELSE OrDefault(opts.minSamples, defaultMinSamples),
   changeLimit |-> IF OrDefault(opts.changeLimit, defaultChangeLimit) < changeLimitFloor
                   THEN changeLimitFloor
                   ELSE OrDefault(opts.changeLimit, defaultChangeLimit),
   minHitWeight |-> RMax(Rat(0), RMin(Rat(1), opts.minHitWeight))]

\* axisIndex(value, axis) with clamp = true, for a finite value; 0-based
axisIndexLeft(value, axis) ==
  IF value < axis[1] THEN 0
  ELSE IF value > axis[Len(axis)] THEN Len(axis) - 1
  ELSE LET notBelow == {i \in 0..(Len(axis) - 1) : axis[i + 1] >= value}
           insertIdx == IF notBelow = {} THEN Len(axis)
                        ELSE CHOOSE i \in notBelow : \A j \in notBelow : i <= j
           idx == insertIdx - 1
       IN IF idx < 0 THEN 0 ELSE IF idx > Len(axis) - 1 THEN Len(axis) - 1 ELSE idx
axisIndex(value, axis) ==
  IF value < axis[1] THEN 0
  ELSE IF value > axis[Len(axis)] THEN Len(axis) - 1
  ELSE LET above == {i \in 0..(Len(axis) - 1) : axis[i + 1] > value}
           insertIdx == IF above = {} THEN Len(axis)
                        ELSE CHOOSE i \in above : \A j \in above : i <= j
           idx == insertIdx - 1
       IN IF idx < 0 THEN 0 ELSE IF idx > Len(axis) - 1 THEN Len(axis) - 1 ELSE idx

\* the weight without the Math.max(0.0, ...) around it
calculateAxisWeightUnclamped(value, idx, axis) ==
  IF Len(axis) < 2 THEN Rat(1)
  ELSE LET lower == IF idx = 0 THEN axis[1]
                    ELSE IF idx >= Len(axis) - 1 THEN axis[Len(axis) - 1]
                    ELSE axis[idx + 1]
           upper == IF idx = 0 THEN axis[2]
                    ELSE IF idx >= Len(axis) - 1 THEN axis[Len(axis)]
                    ELSE axis[idx + 2]
       IN IF upper - lower <= 0 THEN Rat(1)
          ELSE RSub(Rat(1), RDiv(RAbs(RSub(Rat(value), Frac(lower + upper, 2))),
                                 Frac(upper - lower, 2)))

\* calculateAxisWeight(value, idx, axis) for a non-null 0-based idx
calculateAxisWeight(value, idx, axis) ==
  IF Len(axis) < 2 THEN Rat(1)
  ELSE LET lower == IF idx = 0 THEN axis[1]
                    ELSE IF idx >= Len(axis) - 1 THEN axis[Len(axis) - 1]
                    ELSE axis[idx + 1]
           upper == IF idx = 0 THEN axis[2]
                    ELSE IF idx >= Len(axis) - 1 THEN axis[Len(axis)]
                    ELSE axis[idx + 2]
           binCenter == Frac(lower + upper, 2)
           halfWidth == Frac(upper - lower, 2)
       IN IF ~RLess(Rat(0), halfWidth) THEN Rat(1)
          ELSE LET distanceFromCenter == RAbs(RSub(Rat(value), binCenter))
               IN RMax(Rat(0), RSub(Rat(1), RDiv(distanceFromCenter, halfWidth)))

calculateCellWeight(rpm, load, rpmIdx, loadIdx, rpmAxis, loadAxis) ==
  RMul(calculateAxisWeight(rpm, rpmIdx, rpmAxis),
       calculateAxisWeight(load, loadIdx, loadAxis))

\* the calibration read by analyze(): axes and PE enable tables
rpmAxis == <<2000, 4000>>
loadAxis == <<50, 150>>
peEnableLoadArray == <<100, 100>>
peEnableTpsArray == <<50, 50>>
mafVoltageAxis == <<10, 20>>

\* the fuel_base table and the maf_scale array of the calibration
FuelBaseTable == << <<1000, 1200>>, <<800, 0>> >>
MafScaleArray == <<100, 200>>

\* the entries an autotune log is made of (all required columns present):
\* a row and the number of identical consecutive rows it stands for;
\* finite = rpm, load and both lambdas parse to finite numbers
AutotuneLogRows ==
  { [rpm |-> 3000, load |-> 100, throttle |-> 60, lambdaActual |-> 880,
     lambdaTarget |-> 800, stft |-> 0, ltft |-> 0, mafVoltage |-> 15,
     finite |-> TRUE, mafFinite |-> TRUE, count |-> 30],
    [rpm |-> 3000, load |-> 100, throttle |-> 60, lambdaActual |-> 880,
     lambdaTarget |-> 800, stft |-> 0, ltft |-> 0, mafVoltage |-> 15,
     finite |-> TRUE, mafFinite |-> TRUE, count |-> 1],
    [rpm |-> 3000, load |-> 100, throttle |-> 20, lambdaActual |-> 1000,
     lambdaTarget |-> 1000, stft |-> 2, ltft |-> 1, mafVoltage |-> 15,
     finite |-> TRUE, mafFinite |-> TRUE, count |-> 1],
    [rpm |-> 3000, load |-> 100, throttle |-> 20, lambdaActual |-> 1000,
     lambdaTarget |-> 1000, stft |-> -8, ltft |-> 0, mafVoltage |-> 15,
     finite |-> TRUE, mafFinite |-> FALSE, count |-> 30],
    [rpm |-> 2000, load |-> 100, throttle |-> 60, lambdaActual |-> 880,
     lambdaTarget |-> 800, stft |-> 0, ltft |-> 0, mafVoltage |-> 20,
     finite |-> TRUE, mafFinite |-> TRUE, count |-> 30],
    [rpm |-> 2500, load |-> 100, throttle |-> 60, lambdaActual |-> 760,
     lambdaTarget |-> 800, stft |-> 0, ltft |-> 0, mafVoltage |-> 15,
     finite |-> TRUE, mafFinite |-> TRUE, count |-> 1],
    [rpm |-> 5000, load |-> 200, throttle |-> 60, lambdaActual |-> 880,
     lambdaTarget |-> 800, stft |-> 0, ltft |-> 0, mafVoltage |-> 25,
     finite |-> TRUE, mafFinite |-> TRUE, count |-> 1],
    [rpm |-> 3000, load |-> 100, throttle |-> 60, lambdaActual |-> 880,
     lambdaTarget |-> 0, stft |-> 0, ltft |-> 0, mafVoltage |-> 15,
     finite |-> TRUE, mafFinite |-> TRUE, count |-> 1],
    [rpm |-> 0, load |-> 0, throttle |-> 0, lambdaActual |-> 0,
     lambdaTarget |-> 0, stft |-> 0, ltft |-> 0, mafVoltage |-> 0,
     finite |-> FALSE, mafFinite |-> FALSE, count |-> 1] }

\* the option values a caller passes to analyze()
OptionValues ==
  { [minSamples |-> 25, changeLimit |-> 5, minHitWeight |-> Rat(0)],
    [minSamples |-> 1, changeLimit |-> 5, minHitWeight |-> Rat(0)],
    [minSamples |-> 1, changeLimit |-> 5, minHitWeight |-> Frac(1, 4)],
    [minSamples |-> 1, changeLimit |-> -3, minHitWeight |-> Rat(0)],
    [minSamples |-> 0, changeLimit |-> 0, minHitWeight |-> Rat(0)] }

\* a row under minHitWeight that returns without being counted
FuelOutcomeFilteredUncounted(rejected, cellWeight, minHitWeight, loop) ==
  IF rejected THEN "skipped"
  ELSE IF RLess(cellWeight, minHitWeight) THEN "none"
  ELSE loop

\* the counter a row with finite values and a cell increments: skippedRows
\* (open loop without a positive lambda), filteredByCenterWeight, or the
\* total of its loop state
FuelOutcome(rejected, cellWeight, minHitWeight, loop) ==
  IF rejected THEN "skipped"
  ELSE IF RLess(cellWeight, minHitWeight) THEN "filtered"
  ELSE loop

\* the body of data.forEach in analyze() for one row: where the row goes
ClassifyRow(row, minHitWeight) ==
  LET rpmIdx == axisIndex(row.rpm, rpmAxis)
      loadIdx == axisIndex(row.load, loadAxis)
      mafIdx == axisIndex(row.mafVoltage, mafVoltageAxis)
      mafWeight == calculateAxisWeight(row.mafVoltage, mafIdx, mafVoltageAxis)
      isOpenLoop == row.load >= peEnableLoadArray[rpmIdx + 1]
                    /\ row.throttle >= peEnableTpsArray[rpmIdx + 1]
      cellWeight == calculateCellWeight(row.rpm, row.load, rpmIdx, loadIdx,
                                        rpmAxis, loadAxis)
      rejected == isOpenLoop /\ (row.lambdaTarget <= 0 \/ row.lambdaActual <= 0)
      value == IF isOpenLoop THEN Frac(row.lambdaActual, row.lambdaTarget)
               ELSE Rat(row.stft + row.ltft)
      loop == IF isOpenLoop THEN "open" ELSE "closed"
  IN IF ~row.finite
     THEN [fuel |-> "skipped", hit |-> FALSE, rpmIdx |-> 0, loadIdx |-> 0,
           cellWeight |-> Rat(0), value |-> Rat(0),
           maf |-> "none", mafHit |-> FALSE, mafMissing |-> FALSE,
           mafIdx |-> 0, mafWeight |-> Rat(0)]
     ELSE [fuel |-> FuelOutcome(rejected, cellWeight, minHitWeight, loop),
           hit |-> TRUE, rpmIdx |-> rpmIdx, loadIdx |-> loadIdx,
           cellWeight |-> cellWeight,
           value |-> IF rejected THEN Rat(0) ELSE value,
           maf |-> IF rejected \/ ~row.mafFinite THEN "none"
                   ELSE IF RLess(mafWeight, minHitWeight) THEN "filtered"
                   ELSE loop,
           mafHit |-> row.mafFinite,
           mafMissing |-> ~row.mafFinite,
           mafIdx |-> IF row.mafFinite THEN mafIdx ELSE 0,
           mafWeight |-> IF row.mafFinite THEN mafWeight ELSE Rat(0)]

\* openBins / closedBins [rpmIdx_loadIdx] after the forEach (loop = "open" or "closed")
FuelBin(rows, classes, loop, rpmIdx, loadIdx) ==
  LET In(i) == classes[i].fuel = loop /\ classes[i].rpmIdx = rpmIdx
               /\ classes[i].loadIdx = loadIdx
  IN [samples |-> SumOf([i \in 1..Len(rows) |-> IF In(i) THEN rows[i].count ELSE 0]),
      totalWeight |->
        RSum([i \in 1..Len(rows) |->
                IF In(i) THEN RMul(Rat(rows[i].count), classes[i].cellWeight)
                ELSE Rat(0)]),
      weightedSum |->
        RSum([i \in 1..Len(rows) |->
                IF In(i) THEN RMul(Rat(rows[i].count),
                                   RMul(classes[i].value, classes[i].cellWeight))
                ELSE Rat(0)])]

\* mafOpenBins / mafClosedBins [idx] after the forEach
MafBin(rows, classes, loop, idx) ==
  LET In(i) == classes[i].maf = loop /\ classes[i].mafIdx = idx
  IN [samples |-> SumOf([i \in 1..Len(rows) |-> IF In(i) THEN rows[i].count ELSE 0]),
      totalWeight |->
        RSum([i \in 1..Len(rows) |->
                IF In(i) THEN RMul(Rat(rows[i].count), classes[i].mafWeight)
                ELSE Rat(0)]),
      weightedSum |->
        RSum([i \in 1..Len(rows) |->
                IF In(i) THEN RMul(Rat(rows[i].count),
                                   RMul(classes[i].value, classes[i].mafWeight))
                ELSE Rat(0)])]

\* a counter of the forEach: the rows (with multiplicity) of one kind
CountRows(rows, flags) ==
  SumOf([i \in 1..Len(rows) |-> IF flags[i] THEN rows[i].count ELSE 0])

\* Array.from / map / slice: the new array with the elements f[1], ..., f[n]
ArrayFrom(f) == <<>> \o f

\* ensureNumberArray(arr) on an array of numbers: a new array of the same numbers
ensureNumberArray(arr) == ArrayFrom([i \in 1..Len(arr) |-> arr[i]])

\* clone2DArray(table) = table.map(row => row.slice()): every row is copied
\* into a newly allocated array; the result is the table of the new references
clone2DArrayShared(h, table) == [heap |-> h, table |-> table]
clone2DArray(h, table) ==
  [heap |-> h \o [r \in 1..Len(table) |-> h[table[r]]],
   table |-> [r \in 1..Len(table) |-> Len(h) + r]]

\* an entry of openSummary / closedSummary (mafOpenSummary / mafClosedSummary)
\* for one bin; present = the bin exists and passes the minSamples filter
SummaryEntry(bin, loop, currentValue, minSamples) ==
  LET mean == IF RLess(Rat(0), bin.totalWeight)
              THEN RDiv(bin.weightedSum, bin.totalWeight)
              ELSE IF loop = "open" THEN Rat(1) ELSE Rat(0)
  IN [present |-> bin.samples > 0 /\ bin.samples >= minSamples,
      samples |-> bin.samples,
      mean |-> mean,
      suggested |-> IF loop = "open" THEN RMul(currentValue, mean)
                    ELSE RMul(currentValue, RAdd(Rat(1), RDiv(mean, Rat(100))))]

\* the entry of the modifications map for one cell: closed first, open overrides
ModificationClosedOverrides(openEntry, closedEntry) ==
  IF closedEntry.present
  THEN [present |-> TRUE, source |-> "closed", samples |-> closedEntry.samples,
        suggested |-> closedEntry.suggested]
  ELSE IF openEntry.present
  THEN [present |-> TRUE, source |-> "open", samples |-> openEntry.samples,
        suggested |-> openEntry.suggested]
  ELSE [present |-> FALSE, source |-> "null", samples |-> 0, suggested |-> Rat(0)]
Modification(openEntry, closedEntry) ==
  IF openEntry.present
  THEN [present |-> TRUE, source |-> "open", samples |-> openEntry.samples,
        suggested |-> openEntry.suggested]
  ELSE IF closedEntry.present
  THEN [present |-> TRUE, source |-> "closed", samples |-> closedEntry.samples,
        suggested |-> closedEntry.suggested]
  ELSE [present |-> FALSE, source |-> "null", samples |-> 0, suggested |-> Rat(0)]

\* changePct of a suggestion against a non-zero original value
ChangePct(suggested, original) ==
  RMul(RDiv(RSub(suggested, original), original), Rat(100))

\* the value applied for a modification of a cell whose original is non-zero
TargetValueFromSuggested(sourceOriginal, suggested, changeLimit) ==
  IF changeLimit > 0 /\ RLess(Rat(changeLimit), RAbs(ChangePct(suggested, sourceOriginal)))
  THEN IF RLess(Rat(0), ChangePct(suggested, sourceOriginal))
       THEN RMul(suggested, RAdd(Rat(1), Frac(changeLimit, 100)))
       ELSE RMul(suggested, RSub(Rat(1), Frac(changeLimit, 100)))
  ELSE suggested
TargetValue(sourceOriginal, suggested, changeLimit) ==
  IF changeLimit > 0 /\ RLess(Rat(changeLimit), RAbs(ChangePct(suggested, sourceOriginal)))
  THEN IF RLess(Rat(0), ChangePct(suggested, sourceOriginal))
       THEN RMul(sourceOriginal, RAdd(Rat(1), Frac(changeLimit, 100)))
       ELSE RMul(sourceOriginal, RSub(Rat(1), Frac(changeLimit, 100)))
  ELSE suggested

\* an entry of suggestedTable / mafCombinedChanges
ChangeEntry(current, suggested, modification) ==
  LET changePct == IF current # Rat(0) THEN ChangePct(suggested, current) ELSE Rat(0)
  IN [current |-> current, suggested |-> suggested, changePct |-> changePct,
      hasChange |-> RLess(Frac(1, 100), RAbs(changePct)),
      source |-> modification.source, samples |-> modification.samples]

RECURSIVE Pow10(_)
Pow10(digits) == IF digits = 0 THEN 1 ELSE 10 * Pow10(digits - 1)

\* val.toFixed(digits): the decimal string, as the number of units of
\* 10^-digits it denotes (rounded half away from zero)
toFixed(val, digits) ==
  LET units == (2 * Abs(val.n) * Pow10(digits) + val.d) \div (2 * val.d)
  IN IF val.n < 0 THEN -units ELSE units

\* the classification of every row by the data.forEach of analyze()
ClassifyRows(rows, minHitWeight) ==
  ArrayFrom([i \in 1..Len(rows) |-> ClassifyRow(rows[i], minHitWeight)])

\* the modifications and mafModifications maps of analyze(), by cell (from 1)
Modifications(h, t, rows, classes, minSamples) ==
  [fuel |->
     ArrayFrom([r \in 1..Len(rpmAxis) |-> ArrayFrom([c \in 1..Len(loadAxis) |->
       Modification(
         SummaryEntry(FuelBin(rows, classes, "open", r - 1, c - 1), "open",
                      h[t.fuel_base[r]][c], minSamples),
         SummaryEntry(FuelBin(rows, classes, "closed", r - 1, c - 1), "closed",
                      h[t.fuel_base[r]][c], minSamples))])]),
   maf |->
     ArrayFrom([i \in 1..Len(mafVoltageAxis) |->
       Modification(
         SummaryEntry(MafBin(rows, classes, "open", i - 1), "open",
                      ensureNumberArray(h[t.maf_scale])[i], minSamples),
         SummaryEntry(MafBin(rows, classes, "closed", i - 1), "closed",
                      ensureNumberArray(h[t.maf_scale])[i], minSamples))])]

\* cloneTable = clone2DArray(fuelBaseTable) and mafCloneScale = mafScale.slice(),
\* then cloneTable[rpmIdx][loadIdx] = targetValue and mafCloneScale[idx] =
\* targetValue for every modification of a non-zero original: the heap after
\* the writes, the references of cloneTable's rows, and mafCloneScale
ApplyModifications(h, t, mods, changeLimit) ==
  LET fuelBaseTable == t.fuel_base
      mafScale == ensureNumberArray(h[t.maf_scale])
      cloned == clone2DArray(h, fuelBaseTable)
      RowOf(ref) == CHOOSE r \in 1..Len(cloned.table) : cloned.table[r] = ref
  IN [heap |->
        ArrayFrom([ref \in 1..Len(cloned.heap) |->
           IF \E r \in 1..Len(cloned.table) : cloned.table[r] = ref
           THEN ArrayFrom([c \in 1..Len(loadAxis) |->
                  IF mods.fuel[RowOf(ref)][c].present
                     /\ h[fuelBaseTable[RowOf(ref)]][c] # Rat(0)
                  THEN TargetValue(h[fuelBaseTable[RowOf(ref)]][c],
                                   mods.fuel[RowOf(ref)][c].suggested, changeLimit)
                  ELSE cloned.heap[ref][c]])
           ELSE cloned.heap[ref]]),
      cloneTable |-> cloned.table,
      mafCloneScale |->
        ArrayFrom([i \in 1..Len(mafScale) |->
           IF mods.maf[i].present /\ mafScale[i] # Rat(0)
           THEN TargetValue(mafScale[i], mods.maf[i].suggested, changeLimit)
           ELSE mafScale[i]])]

\* the object returned by analyze(); applied is the outcome of the writes and
\* h the heap before them.  The tables of the result are indexed from 1.
AnalysisResult(h, applied, t, rows, classes, mods, parsed) ==
  LET R == 1..Len(rpmAxis)
      C == 1..Len(loadAxis)
      M == 1..Len(mafVoltageAxis)
      N == 1..Len(rows)
      mafScale == ensureNumberArray(h[t.maf_scale])
  IN [present |-> TRUE,
      error |-> "none",
      modificationsApplied |->
        Cardinality({rc \in R \X C : mods.fuel[rc[1]][rc[2]].present}),
      clampedModifications |->
        {rc \in R \X C :
           /\ mods.fuel[rc[1]][rc[2]].present
           /\ h[t.fuel_base[rc[1]]][rc[2]] # Rat(0)
           /\ applied.heap[applied.cloneTable[rc[1]]][rc[2]]
                # mods.fuel[rc[1]][rc[2]].suggested},
      changeLimitPercent |-> parsed.changeLimit,
      minSamples |-> parsed.minSamples,
      minHitWeight |-> parsed.minHitWeight,
      totalOpenSamples |-> CountRows(rows, [i \in N |-> classes[i].fuel = "open"]),
      totalClosedSamples |-> CountRows(rows, [i \in N |-> classes[i].fuel = "closed"]),
      skippedRows |-> CountRows(rows, [i \in N |-> classes[i].fuel = "skipped"]),
      filteredByCenterWeight |->
        CountRows(rows, [i \in N |-> classes[i].fuel = "filtered"]),
      hitCounts |->
        [r \in R |-> [c \in C |->
           CountRows(rows, [i \in N |-> classes[i].hit /\ classes[i].rpmIdx = r - 1
                                        /\ classes[i].loadIdx = c - 1])]],
      currentFuelBase |-> t.fuel_base,
      suggestedTable |->
        [r \in R |-> [c \in C |->
           ChangeEntry(applied.heap[t.fuel_base[r]][c],
                       applied.heap[applied.cloneTable[r]][c], mods.fuel[r][c])]],
      mafModificationsApplied |-> Cardinality({i \in M : mods.maf[i].present}),
      mafScale |-> mafScale,
      mafSuggestedScale |-> applied.mafCloneScale,
      mafCombinedChanges |->
        [i \in M |-> ChangeEntry(mafScale[i], applied.mafCloneScale[i], mods.maf[i])],
      mafHitCounts |->
        [i \in M |-> CountRows(rows, [j \in N |-> classes[j].mafHit
                                                  /\ classes[j].mafIdx = i - 1])],
      totalMafOpenSamples |-> CountRows(rows, [i \in N |-> classes[i].maf = "open"]),
      totalMafClosedSamples |-> CountRows(rows, [i \in N |-> classes[i].maf = "closed"]),
      rowsMissingMafVoltage |-> CountRows(rows, [i \in N |-> classes[i].mafMissing]),
      mafFilteredByCenterWeight |->
        CountRows(rows, [i \in N |-> classes[i].maf = "filtered"]),
      fuelBaseStrings |->
        [r \in R |-> [c \in C |-> toFixed(applied.heap[applied.cloneTable[r]][c], 1)]],
      mafScaleStrings |-> [i \in M |-> toFixed(applied.mafCloneScale[i], 2)]]

\* dataProcessor receives one more run of identical rows of the datalog
AutotuneLoadRow ==
  /\ component = "autotune"
  /\ analyzeCalls = 0
  /\ ~download.present
  /\ Len(data) < MaxLogRows
  /\ \E row \in AutotuneLogRows : data' = Append(data, row)
  /\ UNCHANGED <<component, tuneLoaded, rawEvents, grouped, analysisResults>>
  /\ UNCHANGED <<appStateVars, logScoreVars, autotuneVars, callVars>>

\* runs of 30 rows in and next to the last bins of the axes: on and above the
\* last rpm breakpoint, on and above the last load breakpoint, open and
\* closed loop, and at the center of the first bins
EdgeLogRows ==
  { [rpm |-> r, load |-> 100, throttle |-> 60, lambdaActual |-> 880,
     lambdaTarget |-> 800, stft |-> 0, ltft |-> 0, mafVoltage |-> 15,
     finite |-> TRUE, mafFinite |-> TRUE, count |-> 30] : r \in {3000, 4000, 5000} }
  \cup
  { [rpm |-> 3000, load |-> l, throttle |-> t, lambdaActual |-> 1000,
     lambdaTarget |-> 1000, stft |-> -8, ltft |-> 0, mafVoltage |-> 15,
     finite |-> TRUE, mafFinite |-> TRUE, count |-> 30] :
       l \in {150, 200}, t \in {20, 60} }

\* dataProcessor receives one more run of rows at the edge of the axes
AutotuneLoadEdgeRow ==
  /\ component = "autotune"
  /\ analyzeCalls = 0
  /\ ~download.present
  /\ Len(data) < MaxLogRows
  /\ \E row \in EdgeLogRows : data' = Append(data, row)
  /\ UNCHANGED <<component, tuneLoaded, rawEvents, grouped, analysisResults>>
  /\ UNCHANGED <<appStateVars, logScoreVars, autotuneVars, callVars>>

\* AutotuneEngine.analyze(options): the forEach over the rows, the summaries
\* and modifications, the writes to the copies, the returned object; the arrays
\* allocated during the call and not reachable from its result are dropped
\* from the heap when it returns
AutotuneAnalyze ==
  /\ component = "autotune"
  /\ analyzeCalls < MaxAnalyzeCalls
  /\ ~download.present
  /\ \E opts \in OptionValues :
       /\ options' = opts
       /\ IF ~tuneLoaded
          THEN /\ autotuneResult' =
                    [present |-> TRUE,
                     error |-> "Please load a tune file before running autotune."]
               /\ heap' = heap
          ELSE IF Len(data) = 0
          THEN /\ autotuneResult' =
                    [present |-> TRUE,
                     error |-> "No datalog data available. Load a datalog and try again."]
               /\ heap' = heap
          ELSE \E classes \in {ClassifyRows(data, ParseOptions(opts).minHitWeight)} :
               \E mods \in {Modifications(heap, tune, data, classes,
                                          ParseOptions(opts).minSamples)} :
               \E applied \in {ApplyModifications(heap, tune, mods,
                                                  ParseOptions(opts).changeLimit)} :
                 /\ autotuneResult' = AnalysisResult(heap, applied, tune, data, classes,
                                                     mods, ParseOptions(opts))
                 /\ heap' = SubSeq(applied.heap, 1, Len(heap))
  /\ analyzeCalls' = analyzeCalls + 1
  /\ UNCHANGED <<component, tuneLoaded, data, rawEvents, grouped, analysisResults>>
  /\ UNCHANGED <<appStateVars, logScoreVars, callVars, tune, tuneOriginal, download>>

\* the base tune documents a caller may pass to downloadTune(): the lengths
\* of the axes and the shape of the tables TuneFileParser reads from them
\* (hasFuelBase / hasMafScale: the document's maps hold that entry)
BaseTuneDocuments ==
  { [present |-> TRUE, rpmIndex |-> 2, loadIndex |-> 2, fuelBaseRows |-> 2,
     fuelBaseCols |-> 2, mafScale |-> 2, hasFuelBase |-> TRUE, hasMafScale |-> TRUE],
    [present |-> TRUE, rpmIndex |-> 2, loadIndex |-> 2, fuelBaseRows |-> 3,
     fuelBaseCols |-> 2, mafScale |-> 2, hasFuelBase |-> TRUE, hasMafScale |-> TRUE],
    [present |-> TRUE, rpmIndex |-> 2, loadIndex |-> 2, fuelBaseRows |-> 2,
     fuelBaseCols |-> 3, mafScale |-> 2, hasFuelBase |-> TRUE, hasMafScale |-> TRUE],
    [present |-> TRUE, rpmIndex |-> 2, loadIndex |-> 2, fuelBaseRows |-> 2,
     fuelBaseCols |-> 2, mafScale |-> 3, hasFuelBase |-> TRUE, hasMafScale |-> TRUE],
    [present |-> TRUE, rpmIndex |-> 3, loadIndex |-> 2, fuelBaseRows |-> 2,
     fuelBaseCols |-> 2, mafScale |-> 2, hasFuelBase |-> TRUE, hasMafScale |-> TRUE],
    [present |-> TRUE, rpmIndex |-> 2, loadIndex |-> 2, fuelBaseRows |-> 2,
     fuelBaseCols |-> 2, mafScale |-> 2, hasFuelBase |-> FALSE, hasMafScale |-> TRUE],
    [present |-> TRUE, rpmIndex |-> 2, loadIndex |-> 2, fuelBaseRows |-> 2,
     fuelBaseCols |-> 2, mafScale |-> 2, hasFuelBase |-> TRUE, hasMafScale |-> FALSE] }

\* tuneFileParser.getRawTuneDataClone(): the loaded document, in the same form
LoadedTuneDocument(h, t) ==
  [present |-> TRUE, rpmIndex |-> Len(rpmAxis), loadIndex |-> Len(loadAxis),
   fuelBaseRows |-> Len(t.fuel_base), fuelBaseCols |-> Len(h[t.fuel_base[1]]),
   mafScale |-> Len(h[t.maf_scale]), hasFuelBase |-> TRUE, hasMafScale |-> TRUE]

\* downloadTune(result, filename, baseTuneData) with loaded = tuneFileParser.isLoaded():
\* the returned object and the document handed to the browser as a file
\* (~base.present: no base document was passed)
downloadTuneUnvalidated(result, base, loaded, h, t) ==
  IF ~result.present \/ result.error # "none"
  THEN [returned |-> "Run the autotune analysis before downloading a tune file.",
        file |-> NoResult]
  ELSE [returned |-> "success",
        file |-> [present |-> TRUE, document |-> IF base.present THEN base ELSE LoadedTuneDocument(h, t),
                  fuel_base |-> result.fuelBaseStrings,
                  maf_scale |-> result.mafScaleStrings]]
downloadTune(result, base, loaded, h, t) ==
  LET Refuse(error) == [returned |-> error, file |-> NoResult]
      tuneData == IF base.present THEN base ELSE LoadedTuneDocument(h, t)
      expectedMafLength == Len(result.mafSuggestedScale)
  IN IF ~result.present \/ result.error # "none"
     THEN Refuse("Run the autotune analysis before downloading a tune file.")
     ELSE IF ~base.present /\ ~loaded
     THEN Refuse("No tune file loaded. Please load a tune file or specify a base tune file.")
     ELSE IF ~tuneData.hasFuelBase
     THEN Refuse("fuel_base map not found in tune file.")
     ELSE IF ~tuneData.hasMafScale
     THEN Refuse("maf_scale map not found in tune file.")
     ELSE IF base.present /\ ~loaded
     THEN Refuse("Analysis tune file must be loaded to validate base tune file compatibility.")
     ELSE IF base.present
             /\ (\/ tuneData.fuelBaseRows # Len(rpmAxis)
                 \/ tuneData.fuelBaseCols # Len(loadAxis)
                 \/ tuneData.rpmIndex # Len(rpmAxis)
                 \/ tuneData.loadIndex # Len(loadAxis)
                 \/ (expectedMafLength # 0 /\ tuneData.mafScale # expectedMafLength))
     THEN Refuse("Base tune file tables or axes do not match the tune file used for analysis. Ensure RPM, Load, and MAF calibration structures align.")
     ELSE [returned |-> "success",
           file |-> [present |-> TRUE, document |-> tuneData,
                     fuel_base |-> result.fuelBaseStrings,
                     maf_scale |-> result.mafScaleStrings]]

\* AutotuneEngine.downloadTune(result, filename, baseTuneData) called with the
\* result of the last analyze() (or with nothing, before any analyze()).  It
\* changes nothing that analyze() reads, so a session is followed up to its
\* last download.
AutotuneDownloadTune ==
  /\ component = "autotune"
  /\ \E base \in BaseTuneDocuments \cup {NoResult} :
       download' = [present |-> TRUE, base |-> base,
                    outcome |-> downloadTune(autotuneResult, base, tuneLoaded, heap, tune)]
  /\ UNCHANGED <<component, tuneLoaded, data, rawEvents, grouped, analysisResults>>
  /\ UNCHANGED <<appStateVars, logScoreVars, callVars, heap, tune, tuneOriginal, options, autotuneResult,
                 analyzeCalls>>

AutotuneNext == AutotuneLoadRow \/ AutotuneAnalyze

\* the engine with its download: downloadTune() ends the session of the model
AutotuneDownloadNext == AutotuneNext \/ AutotuneDownloadTune

-----------------------------------------------------------------------------
(* The axis lookups of the tab modules, and the calls of the three axis     *)
(* lookups on their own                                                    *)

\* the loop `for (i = 0; i < axis.length; i++) if (axis[i] > value) break`:
\* the 0-based insertIdx, axis.length when no breakpoint is above the value
RECURSIVE InsertIdx(_, _, _)
InsertIdx(value, axis, i) ==
  IF i >= Len(axis) THEN Len(axis)
  ELSE IF axis[i + 1] > value THEN i
  ELSE InsertIdx(value, axis, i + 1)

\* Math.max(0, Math.min(idx, last))
ClampIndex(idx, last) == IF idx > last THEN (IF last < 0 THEN 0 ELSE last)
                         ELSE IF idx < 0 THEN 0 ELSE idx

\* BaseTabModule.findAxisIndex(value, axis), non-empty axis, finite value; 0-based
BaseTabFindAxisIndex(value, axis) ==
  IF value < axis[1] THEN 0
  ELSE IF value > axis[Len(axis)] THEN Len(axis) - 1
  ELSE ClampIndex(InsertIdx(value, axis, 0) - 1, Len(axis) - 1)

\* KnockAnalysisTab.findAxisIndex(value, axis), non-empty axis, finite value; 0-based
KnockTabFindAxisIndex(value, axis) ==
  IF value < axis[1] THEN 0
  ELSE IF value > axis[Len(axis)] THEN Len(axis) - 1
  ELSE LET insertIdx == InsertIdx(value, axis, 0)
           idx == insertIdx - 1
       IN ClampIndex(idx, Len(axis) - 1)

MaxAxisLength == 3

AxisBreakpoints == {10, 20, 30}

\* the axes of a calibration: non-empty, ascending (equal neighbours included)
LookupAxes ==
  UNION {{axis \in [1..n -> AxisBreakpoints] :
            \A i \in 1..(n - 1) : axis[i] <= axis[i + 1]} : n \in 1..MaxAxisLength}

\* values below, on, between and above the breakpoints
LookupValues == {5, 10, 15, 20, 25, 30, 35}

\* one call of axisIndex(value, axis) on the arguments held in data
AxisIndexCall ==
  /\ component = "axislookup"
  /\ returned.method = "none"
  /\ returned' = [method |-> "axisIndex", isNull |-> FALSE,
                  value |-> [index |-> axisIndex(data[1].value, data[1].axis)],
                  rows |-> Len(data)]
  /\ UNCHANGED <<component, analyzerVars, columns>>
  /\ UNCHANGED <<appStateVars, logScoreVars, autotuneVars>>

\* one call of BaseTabModule.findAxisIndex(value, axis)
BaseTabFindAxisIndexCall ==
  /\ component = "axislookup"
  /\ returned.method = "none"
  /\ returned' = [method |-> "BaseTabModule.findAxisIndex", isNull |-> FALSE,
                  value |-> [index |-> BaseTabFindAxisIndex(data[1].value, data[1].axis)],
                  rows |-> Len(data)]
  /\ UNCHANGED <<component, analyzerVars, columns>>
  /\ UNCHANGED <<appStateVars, logScoreVars, autotuneVars>>

\* one call of KnockAnalysisTab.findAxisIndex(value, axis)
KnockTabFindAxisIndexCall ==
  /\ component = "axislookup"
  /\ returned.method = "none"
  /\ returned' = [method |-> "KnockAnalysisTab.findAxisIndex", isNull |-> FALSE,
                  value |-> [index |-> KnockTabFindAxisIndex(data[1].value, data[1].axis)],
                  rows |-> Len(data)]
  /\ UNCHANGED <<component, analyzerVars, columns>>
  /\ UNCHANGED <<appStateVars, logScoreVars, autotuneVars>>

\* the bin of a value and its centering weight, as analyze() computes them
\* for the rpm, the load and the MAF voltage of a row
CalculateAxisWeightCall ==
  /\ component = "axislookup"
  /\ returned.method = "none"
  /\ \E idx \in {axisIndex(data[1].value, data[1].axis)} :
       returned' = [method |-> "calculateAxisWeight", isNull |-> FALSE,
                    value |-> [index |-> idx,
                               weight |-> calculateAxisWeight(data[1].value, idx,
                                                              data[1].axis)],
                    rows |-> Len(data)]
  /\ UNCHANGED <<component, analyzerVars, columns>>
  /\ UNCHANGED <<appStateVars, logScoreVars, autotuneVars>>

AxisLookupNext == AxisIndexCall \/ BaseTabFindAxisIndexCall \/ KnockTabFindAxisIndexCall

-----------------------------------------------------------------------------
(* LoadLimitAnalyzer.  Load and load limit in 1/100 g/rev, injector pulse  *)
(* width in 1/10 ms, time in milliseconds.                                 *)

MaxLoadLimitRows == 2

loadLimitGroupingTimeWindow == 500
warningThreshold == 90
fuelCutPulseWidth == 1
defaultRpm == 4000
defaultLimits == <<128, 135, 142, 150, 158, 167, 175, 183, 192, 200, 208, 217, 225, 233, 242, 254>>
defaultRpmIndex == <<800, 1200, 1600, 2000, 2400, 2800, 3200, 3600, 4000, 4400, 4800, 5200,
                     5600, 6000, 6400, 6800>>

\* the names analyze() accepts for the load column, in the order it tries them
loadColumnNames == <<"Load (MAF) (g/rev)", "Load (MAF)", "Load", "Load (g/rev)",
                     "Engine Load (g/rev)", "Engine Load", "MAF Load (g/rev)", "MAF Load">>

\* the column sets of the logs of the model: two with a load column under one
\* of the accepted names, one without a load column
LogColumns ==
  { {"Time (s)", "Engine Speed (rpm)", "Load (MAF) (g/rev)"},
    {"Time (s)", "Engine Speed (rpm)", "Engine Load"},
    {"Time (s)", "Engine Speed (rpm)"} }

\* findColumn, exact match: the first accepted name that is a column, else null
\* (the case-insensitive and partial matches find nothing more in LogColumns)
findColumn(cols, possibleNames) ==
  IF \E k \in 1..Len(possibleNames) : possibleNames[k] \in cols
  THEN possibleNames[CHOOSE k \in 1..Len(possibleNames) :
                       /\ possibleNames[k] \in cols
                       /\ \A j \in 1..(k - 1) : possibleNames[j] \notin cols]
  ELSE "null"

\* window.tuneFileParser.getLoadLimit(rpm) of the loaded calibration
getLoadLimit(rpm) == IF rpm >= 4000 THEN 220 ELSE 140

\* the loop over defaultRpmIndex: the (1-based) position of the default limit
RECURSIVE DefaultLimitIdx(_, _)
DefaultLimitIdx(rpm, i) ==
  IF i > Len(defaultRpmIndex) - 1 THEN 1
  ELSE IF rpm >= defaultRpmIndex[i] /\ rpm < defaultRpmIndex[i + 1] THEN i
  ELSE IF rpm >= defaultRpmIndex[Len(defaultRpmIndex)] THEN Len(defaultRpmIndex)
  ELSE DefaultLimitIdx(rpm, i + 1)

LoadLimitOf(rpm, loaded) ==
  IF loaded THEN getLoadLimit(rpm) ELSE defaultLimits[DefaultLimitIdx(rpm, 1)]

\* the rows of the model: skipped rows (no load, no rpm), a row well below the
\* limit, rows at 0.9 of a limit, at a limit and above a limit
LoadLimitRowKinds ==
  { [load |-> 0,   rpm |-> 800,  injectorPW |-> 20],
    [load |-> 100, rpm |-> 0,    injectorPW |-> 20],
    [load |-> 100, rpm |-> 800,  injectorPW |-> 20],
    [load |-> 126, rpm |-> 800,  injectorPW |-> 20],
    [load |-> 128, rpm |-> 800,  injectorPW |-> 20],
    [load |-> 140, rpm |-> 800,  injectorPW |-> 0],
    [load |-> 260, rpm |-> 7000, injectorPW |-> 20] }

LoadLimitDeltas == {500, 501}

\* if (isNaN(load) || load <= 0 || rpm <= 0) return;
LoadLimitRowSkipped(row) == row.load <= 0 \/ row.rpm <= 0

\* if (!loadLimit || isNaN(loadLimit) || loadLimit <= 0) return;
LoadLimitInvalid(loadLimit) == loadLimit <= 0

isViolation(load, loadLimit) == load > loadLimit

\* loadRatio >= this.warningThreshold && loadRatio < 1.0, loadRatio = load / loadLimit
isNearLimitInclusive(load, loadLimit) ==
  load * 100 >= warningThreshold * loadLimit /\ load <= loadLimit
isNearLimit(load, loadLimit) ==
  load * 100 >= warningThreshold * loadLimit /\ load < loadLimit

\* the event analyze() pushes for one row, if any
LoadLimitRowEvents(row, index, loaded) ==
  LET loadLimit == LoadLimitOf(row.rpm, loaded)
      base == [index |-> index, time |-> row.time, load |-> row.load,
               loadLimit |-> loadLimit, loadRatio |-> Frac(row.load, loadLimit),
               rpm |-> row.rpm, fuelCut |-> row.injectorPW <= fuelCutPulseWidth,
               injectorPW |-> row.injectorPW]
  IN IF LoadLimitRowSkipped(row) \/ LoadLimitInvalid(loadLimit) THEN <<>>
     ELSE IF isViolation(row.load, loadLimit)
          THEN << base @@ [eventType |-> "limit_violation", severity |-> "critical"] >>
     ELSE IF isNearLimit(row.load, loadLimit)
          THEN << base @@ [eventType |-> "near_limit", severity |-> "severe"] >>
     ELSE <<>>

LoadLimitRawEvents(rows, loaded) ==
  Concat([i \in 1..Len(rows) |-> LoadLimitRowEvents(rows[i], i - 1, loaded)])

\* the loop of groupLoadLimitEvents: the groups as sequences of member events
RECURSIVE LoadLimitGroupLoop(_, _, _, _)
LoadLimitGroupLoop(sortedEvents, i, currentGroup, groupedEvents) ==
  IF i > Len(sortedEvents) THEN Append(groupedEvents, currentGroup)
  ELSE LET currentEvent == sortedEvents[i]
           lastEventInGroup == currentGroup[Len(currentGroup)]
           timeDiff == currentEvent.time - lastEventInGroup.time
       IN IF /\ timeDiff <= loadLimitGroupingTimeWindow
             /\ currentEvent.eventType = lastEventInGroup.eventType
          THEN LoadLimitGroupLoop(sortedEvents, i + 1, Append(currentGroup, currentEvent),
                                  groupedEvents)
          ELSE LoadLimitGroupLoop(sortedEvents, i + 1, <<currentEvent>>,
                                  Append(groupedEvents, currentGroup))

LoadLimitGroups(events) ==
  IF events = <<>> THEN <<>>
  ELSE LET sortedEvents == SortByTime(events)
       IN LoadLimitGroupLoop(sortedEvents, 2, <<sortedEvents[1]>>, <<>>)

\* the member with the highest load ratio, the first of them on a tie
RECURSIVE MostSevereByRatio(_, _, _)
MostSevereByRatio(eventGroup, i, prev) ==
  IF i > Len(eventGroup) THEN prev
  ELSE MostSevereByRatio(eventGroup, i + 1,
         IF RLess(prev.loadRatio, eventGroup[i].loadRatio) THEN eventGroup[i] ELSE prev)

\* the largest of the loads followed by maxLoad, which starts at 0
MaxLoadOf(loads) ==
  CHOOSE m \in {0} \cup {loads[k] : k \in 1..Len(loads)} :
    \A k \in 1..Len(loads) : loads[k] <= m

\* Math.max(...eventGroup.map(e => e.loadRatio))
RECURSIVE MaxRatioOf(_, _, _)
MaxRatioOf(eventGroup, i, best) ==
  IF i > Len(eventGroup) THEN best
  ELSE MaxRatioOf(eventGroup, i + 1, RMax(best, eventGroup[i].loadRatio))

LoadLimitCreateGroupedEvent(eventGroup) ==
  LET mostSevereEvent == MostSevereByRatio(eventGroup, 2, eventGroup[1])
      startTime == eventGroup[1].time
      endTime == eventGroup[Len(eventGroup)].time
  IN [index |-> mostSevereEvent.index,
      time |-> startTime,
      endTime |-> endTime,
      duration |-> endTime - startTime,
      load |-> mostSevereEvent.load,
      maxLoad |-> MaxLoadOf([k \in 1..Len(eventGroup) |-> eventGroup[k].load]),
      loadLimit |-> Frac(SumOf([k \in 1..Len(eventGroup) |-> eventGroup[k].loadLimit]),
                         Len(eventGroup)),
      loadRatio |-> mostSevereEvent.loadRatio,
      maxLoadRatio |-> MaxRatioOf(eventGroup, 2, eventGroup[1].loadRatio),
      fuelCut |-> \E k \in 1..Len(eventGroup) : eventGroup[k].fuelCut,
      eventType |-> mostSevereEvent.eventType,
      severity |-> mostSevereEvent.severity,
      eventCount |-> Len(eventGroup)]

groupLoadLimitEvents(events) ==
  LET groups == LoadLimitGroups(events)
  IN [g \in 1..Len(groups) |-> LoadLimitCreateGroupedEvent(groups[g])]

CountOf(events, eventType) ==
  Cardinality({k \in 1..Len(events) : events[k].eventType = eventType})

\* the statistics of a completed scan
LoadLimitStatistics(rows, loaded, groupedEvents) ==
  LET valid == {i \in 1..Len(rows) : ~LoadLimitRowSkipped(rows[i])}
      limited == {i \in valid : ~LoadLimitInvalid(LoadLimitOf(rows[i].rpm, loaded))}
      violations == {i \in limited :
                       isViolation(rows[i].load, LoadLimitOf(rows[i].rpm, loaded))}
      near == {i \in limited :
                 isNearLimit(rows[i].load, LoadLimitOf(rows[i].rpm, loaded))}
      totalLoadLimit ==
        SumOf([i \in 1..Len(rows) |->
                 IF i \in limited THEN LoadLimitOf(rows[i].rpm, loaded) ELSE 0])
      validDataPointCount == Cardinality(valid)
  IN [totalDataPoints |-> validDataPointCount,
      maxLoad |-> MaxLoadOf([i \in 1..Len(rows) |->
                                    IF i \in limited THEN rows[i].load ELSE 0]),
      violations |-> Cardinality(violations),
      violationEvents |-> CountOf(groupedEvents, "limit_violation"),
      nearLimitEvents |-> CountOf(groupedEvents, "near_limit"),
      timeNearLimit |-> IF validDataPointCount > 0
                        THEN Frac(Cardinality(violations \cup near) * 100,
                                  validDataPointCount)
                        ELSE Rat(0),
      avgLoadLimit |-> IF validDataPointCount > 0 /\ totalLoadLimit > 0
                       THEN Frac(totalLoadLimit, validDataPointCount)
                       ELSE IF loaded THEN Rat(getLoadLimit(defaultRpm))
                       ELSE Rat(0)]

\* the statistics of the result returned when the load column is missing
LoadLimitEmptyStatistics ==
  [totalDataPoints |-> 0, maxLoad |-> 0, violations |-> 0,
   timeNearLimit |-> Rat(0), avgLoadLimit |-> Rat(0)]

\* LoadLimitAnalyzer.analyze(): the value it returns (isNull: it returned null
\* and stored nothing) and the candidates and groups of the scan
LoadLimitAnalysis(rows, cols, loaded) ==
  LET loadCol == findColumn(cols, loadColumnNames)
      events == LoadLimitRawEvents(rows, loaded)
      groupedEvents == groupLoadLimitEvents(events)
  IN IF rows = <<>>
     THEN [isNull |-> TRUE, result |-> NoResult, rawEvents |-> <<>>, grouped |-> <<>>]
     ELSE IF loadCol = "null"
     THEN [isNull |-> FALSE,
           result |-> [present |-> TRUE, events |-> <<>>,
                       statistics |-> LoadLimitEmptyStatistics,
                       columns |-> [load |-> loadCol],
                       error |-> "Required load column not found in log file"],
           rawEvents |-> <<>>, grouped |-> <<>>]
     ELSE [isNull |-> FALSE,
           result |-> [present |-> TRUE, events |-> groupedEvents,
                       statistics |-> LoadLimitStatistics(rows, loaded, groupedEvents),
                       columns |-> [load |-> loadCol],
                       error |-> "none"],
           rawEvents |-> events, grouped |-> LoadLimitGroups(events)]

\* dataProcessor's rows change (also after an analysis)
LoadLimitLoadRow ==
  /\ component = "loadlimit"
  /\ Len(data) < MaxLoadLimitRows
  /\ \E kind \in LoadLimitRowKinds, dt \in LoadLimitDeltas :
       LET time == IF data = <<>> THEN 0 ELSE data[Len(data)].time + dt
       IN data' = Append(data, [time |-> time] @@ kind)
  /\ UNCHANGED <<component, tuneLoaded, rawEvents, grouped, analysisResults>>
  /\ UNCHANGED <<appStateVars, logScoreVars, autotuneVars, callVars>>

\* a calibration is loaded (also after an analysis)
LoadLimitLoadTune ==
  /\ component = "loadlimit"
  /\ ~tuneLoaded
  /\ tuneLoaded' = TRUE
  /\ UNCHANGED <<component, data, rawEvents, grouped, analysisResults>>
  /\ UNCHANGED <<appStateVars, logScoreVars, autotuneVars, callVars>>

\* LoadLimitAnalyzer.analyze()
LoadLimitAnalyze ==
  /\ component = "loadlimit"
  /\ \E outcome \in {LoadLimitAnalysis(data, columns, tuneLoaded)} :
       /\ returned' = [method |-> "analyze", isNull |-> outcome.isNull,
                       value |-> outcome.result, rows |-> Len(data)]
       /\ IF outcome.isNull
          THEN UNCHANGED <<rawEvents, grouped, analysisResults>>
          ELSE /\ rawEvents' = outcome.rawEvents
               /\ grouped' = outcome.grouped
               /\ analysisResults' = outcome.result
  /\ UNCHANGED <<component, tuneLoaded, data, columns>>
  /\ UNCHANGED <<appStateVars, logScoreVars, autotuneVars>>

\* if (!this.analysisResults) this.analyze(): the analyzer's state after it
StoredAfterAnalyzeAlways(results, raw, groups, rows, cols, loaded) ==
  LET outcome == LoadLimitAnalysis(rows, cols, loaded)
  IN IF outcome.isNull
     THEN [analysisResults |-> results, rawEvents |-> raw, grouped |-> groups]
     ELSE [analysisResults |-> outcome.result, rawEvents |-> outcome.rawEvents,
           grouped |-> outcome.grouped]
StoredAfterAnalyzeIfNone(results, raw, groups, rows, cols, loaded) ==
  IF results.present
  THEN [analysisResults |-> results, rawEvents |-> raw, grouped |-> groups]
  ELSE LET outcome == LoadLimitAnalysis(rows, cols, loaded)
       IN IF outcome.isNull
          THEN [analysisResults |-> results, rawEvents |-> raw, grouped |-> groups]
          ELSE [analysisResults |-> outcome.result, rawEvents |-> outcome.rawEvents,
                grouped |-> outcome.grouped]

\* LoadLimitAnalyzer.getStatistics()
LoadLimitGetStatistics ==
  /\ component = "loadlimit"
  /\ \E stored \in {StoredAfterAnalyzeIfNone(analysisResults, rawEvents, grouped,
                                              data, columns, tuneLoaded)} :
       /\ analysisResults' = stored.analysisResults
       /\ rawEvents' = stored.rawEvents
       /\ grouped' = stored.grouped
       /\ returned' = IF stored.analysisResults.present
                      THEN [method |-> "getStatistics", isNull |-> FALSE,
                            value |-> stored.analysisResults.statistics,
                            rows |-> Len(data)]
                      ELSE [method |-> "getStatistics", isNull |-> TRUE,
                            value |-> NoResult, rows |-> Len(data)]
  /\ UNCHANGED <<component, tuneLoaded, data, columns>>
  /\ UNCHANGED <<appStateVars, logScoreVars, autotuneVars>>

\* LoadLimitAnalyzer.getEvents()
LoadLimitGetEvents ==
  /\ component = "loadlimit"
  /\ \E stored \in {StoredAfterAnalyzeIfNone(analysisResults, rawEvents, grouped,
                                              data, columns, tuneLoaded)} :
       /\ analysisResults' = stored.analysisResults
       /\ rawEvents' = stored.rawEvents
       /\ grouped' = stored.grouped
       /\ returned' = [method |-> "getEvents", isNull |-> FALSE,
                       value |-> [events |-> IF stored.analysisResults.present
                                             THEN stored.analysisResults.events
                                             ELSE <<>>],
                       rows |-> Len(data)]
  /\ UNCHANGED <<component, tuneLoaded, data, columns>>
  /\ UNCHANGED <<appStateVars, logScoreVars, autotuneVars>>

\* logs of up to MaxInterleavedRows rows less than a grouping window apart
\* and more than one apart
MaxInterleavedRows == 3

InterleavedDeltas == {200, 300, 501}

RECURSIVE InterleavedLogs(_)
InterleavedLogs(n) ==
  IF n = 0 THEN { <<>> }
  ELSE LET shorter == InterleavedLogs(n - 1)
       IN shorter \cup
          { Append(log, [time |-> IF log = <<>> THEN 0 ELSE log[Len(log)].time + dt]
                        @@ kind) :
              log \in {l \in shorter : Len(l) = n - 1},
              kind \in LoadLimitRowKinds, dt \in InterleavedDeltas }

LoadLimitNext ==
  \/ LoadLimitLoadRow
  \/ LoadLimitLoadTune
  \/ LoadLimitAnalyze
  \/ LoadLimitGetStatistics
  \/ LoadLimitGetEvents

-----------------------------------------------------------------------------
(* Initial states *)

LogScoreIdle ==
  /\ cache = <<>>
  /\ showShortTermTrim = FALSE
  /\ compiledIssues = <<>>

AutotuneIdle ==
  /\ heap = <<>>
  /\ tune = <<>>
  /\ tuneOriginal = <<>>
  /\ options = <<>>
  /\ autotuneResult = NoResult
  /\ analyzeCalls = 0
  /\ download = NoResult

\* no method of the load limit analyzer has been called
\* (value: the returned object, an events list being held under .events;
\* rows: the length of the log at the call)
NoCall == [method |-> "none", isNull |-> TRUE, value |-> NoResult, rows |-> 0]

CallIdle ==
  /\ columns = {}
  /\ returned = NoCall

\* a new AppState: no listener, no emit so far
NoEmit == [running |-> FALSE, event |-> "none", data |-> 0, k |-> 0, len |-> 0,
           atStart |-> {}, unsubscribedBefore |-> {}, received |-> <<>>,
           errors |-> 0, spliced |-> FALSE]

AppStateIdle ==
  /\ listeners = <<>>
  /\ unsubscribers = {}
  /\ emit = NoEmit

AnalyzerInit(c) ==
  /\ component = c
  /\ tuneLoaded \in BOOLEAN
  /\ data = <<>>
  /\ rawEvents = <<>>
  /\ grouped = <<>>
  /\ analysisResults = NoResult

InitBoost == AnalyzerInit("boost") /\ LogScoreIdle /\ AutotuneIdle /\ CallIdle /\ AppStateIdle

SpecBoost == InitBoost /\ [][BoostNext]_vars

InitAFR == AnalyzerInit("afr") /\ LogScoreIdle /\ AutotuneIdle /\ CallIdle /\ AppStateIdle

SpecAFR == InitAFR /\ [][AFRNext]_vars

InitKnock == AnalyzerInit("knock") /\ LogScoreIdle /\ AutotuneIdle /\ CallIdle /\ AppStateIdle

SpecKnock == InitKnock /\ [][KnockNext]_vars

\* a knock detector whose log is a run of equal samples, or is still to be loaded
InitKnockRuns ==
  \/ InitKnock
  \/ /\ component = "knock"
     /\ tuneLoaded \in BOOLEAN
     /\ data \in KnockRuns
     /\ rawEvents = <<>>
     /\ grouped = <<>>
     /\ analysisResults = NoResult
     /\ LogScoreIdle
     /\ AutotuneIdle
     /\ CallIdle /\ AppStateIdle

SpecKnockRuns == InitKnockRuns /\ [][KnockNext]_vars

InitFuelTrim == AnalyzerInit("fueltrim") /\ LogScoreIdle /\ AutotuneIdle /\ CallIdle /\ AppStateIdle

SpecFuelTrim == InitFuelTrim /\ [][FuelTrimNext]_vars

InitIAM == AnalyzerInit("iam") /\ tuneLoaded = FALSE /\ LogScoreIdle /\ AutotuneIdle /\ CallIdle /\ AppStateIdle

SpecIAM == InitIAM /\ [][IAMNext]_vars

\* the arguments of a call of categorizeSeverity
InitSeverity ==
  /\ component = "severity"
  /\ tuneLoaded = FALSE
  /\ data \in {<< [knockRetard |-> k, load |-> l] >> : k \in SeverityRetards, l \in SeverityLoads}
  /\ rawEvents = <<>>
  /\ grouped = <<>>
  /\ analysisResults = NoResult
  /\ LogScoreIdle
  /\ AutotuneIdle
  /\ CallIdle /\ AppStateIdle

SpecSeverity == InitSeverity /\ [][CategorizeSeverity]_vars

\* the argument of a call of classifyErrorSeverity
InitBoostSeverity ==
  /\ component = "boostseverity"
  /\ tuneLoaded = FALSE
  /\ data \in {<< [error |-> e] >> : e \in BoostErrors}
  /\ rawEvents = <<>>
  /\ grouped = <<>>
  /\ analysisResults = NoResult
  /\ LogScoreIdle
  /\ AutotuneIdle
  /\ CallIdle /\ AppStateIdle

SpecBoostSeverity == InitBoostSeverity /\ [][ClassifyErrorSeverity]_vars

\* the arguments of a call of groupEventsByTime: events in any order, each event
\* knowing its position in the caller's array
MaxGroupEvents == 3
GroupEventTimes == {0, 100, 101, 250}
GroupTimeWindows == {0, 100, 150}

GroupEventLists ==
  UNION {{[i \in 1..n |-> [index |-> i - 1, time |-> times[i]]] :
            times \in [1..n -> GroupEventTimes]} : n \in 0..MaxGroupEvents}

InitGroupEventsByTime ==
  /\ component = "grouping"
  /\ tuneLoaded = FALSE
  /\ \E events \in GroupEventLists, w \in GroupTimeWindows :
       /\ data = << [events |-> events, timeWindow |-> w] >>
       /\ rawEvents = events
  /\ grouped = <<>>
  /\ analysisResults = NoResult
  /\ LogScoreIdle
  /\ AutotuneIdle
  /\ CallIdle /\ AppStateIdle

SpecGroupEventsByTime == InitGroupEventsByTime /\ [][GroupEventsByTimeCall]_vars

\* the arguments of a call of an axis lookup
InitAxisLookup ==
  /\ component = "axislookup"
  /\ tuneLoaded = FALSE
  /\ data \in {<< [value |-> v, axis |-> axis] >> : v \in LookupValues, axis \in LookupAxes}
  /\ rawEvents = <<>>
  /\ grouped = <<>>
  /\ analysisResults = NoResult
  /\ LogScoreIdle
  /\ AutotuneIdle
  /\ CallIdle /\ AppStateIdle

SpecAxisLookup == InitAxisLookup /\ [][AxisLookupNext]_vars

InitLoadLimit ==
  /\ AnalyzerInit("loadlimit")
  /\ LogScoreIdle
  /\ AutotuneIdle
  /\ columns \in LogColumns
  /\ returned = NoCall
  /\ AppStateIdle

SpecLoadLimit == InitLoadLimit /\ [][LoadLimitNext]_vars

\* a load limit analyzer over a log whose rows are already loaded
InitLoadLimitLogs ==
  /\ component = "loadlimit"
  /\ tuneLoaded \in BOOLEAN
  /\ data \in InterleavedLogs(MaxInterleavedRows)
  /\ rawEvents = <<>>
  /\ grouped = <<>>
  /\ analysisResults = NoResult
  /\ LogScoreIdle
  /\ AutotuneIdle
  /\ columns = {"Time (s)", "Engine Speed (rpm)", "Load (MAF) (g/rev)"}
  /\ returned = NoCall
  /\ AppStateIdle

SpecLoadLimitLogs == InitLoadLimitLogs /\ [][LoadLimitAnalyze]_vars

AnalyzerIdle ==
  /\ tuneLoaded = FALSE
  /\ data = <<>>
  /\ rawEvents = <<>>
  /\ grouped = <<>>
  /\ analysisResults = NoResult

InitLogScore ==
  /\ component = "logscore"
  /\ cache = [t \in Tabs |-> <<>>]
  /\ showShortTermTrim = FALSE
  /\ compiledIssues = <<>>
  /\ AnalyzerIdle
  /\ AutotuneIdle
  /\ CallIdle /\ AppStateIdle

SpecLogScore == InitLogScore /\ [][LogScoreNext]_vars

\* the four analyzers that group their candidates by time window
GroupingNext == KnockNext \/ BoostNext \/ AFRNext \/ FuelTrimNext

InitGrouping == InitKnock \/ InitBoost \/ InitAFR \/ InitFuelTrim

SpecGrouping == InitGrouping /\ [][GroupingNext]_vars

\* the calibration as tuneFileParser holds it after loading a tune file: the
\* rows of fuel_base and the maf_scale array are arrays on the heap
InitAutotune ==
  /\ component = "autotune"
  /\ tuneLoaded \in BOOLEAN
  /\ data = <<>>
  /\ rawEvents = <<>>
  /\ grouped = <<>>
  /\ analysisResults = NoResult
  /\ LogScoreIdle
  /\ CallIdle /\ AppStateIdle
  /\ options = <<>>
  /\ autotuneResult = NoResult
  /\ analyzeCalls = 0
  /\ download = NoResult
  /\ IF tuneLoaded
     THEN /\ heap = [r \in 1..Len(FuelBaseTable) |->
                       [c \in 1..Len(FuelBaseTable[r]) |-> Rat(FuelBaseTable[r][c])]]
                    \o << [i \in 1..Len(MafScaleArray) |-> Rat(MafScaleArray[i])] >>
          /\ tune = [fuel_base |-> [r \in 1..Len(FuelBaseTable) |-> r],
                     maf_scale |-> Len(FuelBaseTable) + 1]
          /\ tuneOriginal =
               [fuel_base |-> [r \in 1..Len(FuelBaseTable) |->
                                 [c \in 1..Len(FuelBaseTable[r]) |->
                                    Rat(FuelBaseTable[r][c])]],
                maf_scale |-> [i \in 1..Len(MafScaleArray) |-> Rat(MafScaleArray[i])]]
     ELSE heap = <<>> /\ tune = <<>> /\ tuneOriginal = <<>>

SpecAutotune == InitAutotune /\ [][AutotuneNext]_vars

SpecAutotuneDownload == InitAutotune /\ [][AutotuneDownloadNext]_vars

\* the centering weight on its own arguments, and the engine on logs at the
\* edge of the calibration's axes
CellWeightNext == CalculateAxisWeightCall \/ AutotuneLoadEdgeRow \/ AutotuneAnalyze

InitCellWeight == InitAxisLookup \/ InitAutotune

SpecCellWeight == InitCellWeight /\ [][CellWeightNext]_vars

-----------------------------------------------------------------------------
(* Properties of the grouping by time window *)

Analyzed(c) == component = c /\ analysisResults.present

GroupingWindow ==
  CASE component = "knock" -> knockGroupingTimeWindow
    [] component = "boost" -> boostGroupingTimeWindow
    [] component = "afr" -> afrGroupingTimeWindow
    [] component = "fueltrim" -> fuelTrimGroupingTimeWindow

\* candidates i < j of rawEvents have the same type and no candidate of that
\* type lies between them (rows, hence candidates, are in time order)
AdjacentSameType(i, j) ==
  /\ i < j
  /\ rawEvents[i].eventType = rawEvents[j].eventType
  /\ \A k \in (i + 1)..(j - 1) : rawEvents[k].eventType # rawEvents[i].eventType

\* C1: for the knock, boost, AFR and fuel-trim analyzers, two same-type
\* candidates adjacent in time among the candidates of their type are members
\* of one grouped event iff their distance D is at most the analyzer's grouping
\* window, and when D exceeds the window they are members of two distinct
\* grouped events (grouped events taken before any minimum-duration filter).
C1_GroupedIffWithinWindow ==
  (component \in {"knock", "boost", "afr", "fueltrim"} /\ analysisResults.present) =>
    \A i, j \in 1..Len(rawEvents) :
      AdjacentSameType(i, j) =>
        LET D == rawEvents[j].time - rawEvents[i].time
            a == rawEvents[i].index
            b == rawEvents[j].index
        IN /\ (D <= GroupingWindow) <=>
                (\E g \in 1..Len(grouped) : a \in grouped[g].members
                                            /\ b \in grouped[g].members)
           /\ (D > GroupingWindow) =>
                (\E g, h \in 1..Len(grouped) : /\ g # h
                                               /\ a \in grouped[g].members
                                               /\ b \in grouped[h].members)

-----------------------------------------------------------------------------
(* Properties of the boost analyzer *)

\* the result has an event of the given type whose span covers time t
Covers(events, eventType, t) ==
  \E k \in 1..Len(events) :
    /\ events[k].eventType = eventType
    /\ events[k].time <= t
    /\ t <= events[k].endTime

\* C2: every sample with actual boost >= 100 kPa and above the calibration's
\* RPM-indexed boost limit is covered, in the result of the boost analyzer,
\* by an event of type limit_violation with severity critical.
C2_LimitViolationReported ==
  Analyzed("boost") =>
    \A i \in 1..Len(data) :
      ( /\ tuneLoaded
        /\ data[i].actualBoost >= minBoostPressure
        /\ data[i].actualBoost > getBoostLimit(data[i].rpm) )
      => \E k \in 1..Len(analysisResults.events) :
           LET e == analysisResults.events[k]
           IN /\ e.eventType = "limit_violation"
              /\ Prop(e, "severity") = "critical"
              /\ e.time <= data[i].time
              /\ data[i].time <= e.endTime

\* the log holds 150 kPa against a 130 kPa target above 30% throttle for
\* exactly 0.3 s and is on target for the rest of the log
OvershootScenario ==
  \E n \in 2..(Len(data) - 1) :
    /\ \A i \in 1..n : /\ data[i].actualBoost = 1500
                       /\ data[i].boostTarget = 1300
                       /\ data[i].throttle > minThrottleForOvershoot
    /\ data[n].time - data[1].time = 300
    /\ \A i \in (n + 1)..Len(data) : /\ data[i].actualBoost = data[i].boostTarget
                                     /\ data[i].actualBoost >= minBoostPressure

\* C3: a 0.3 s hold of 150 kPa against 130 kPa above 30% throttle, followed by
\* on-target samples, yields exactly one event: overshoot, severe, 0.3 s long.
C3_OvershootScenarioEvent ==
  (Analyzed("boost") /\ OvershootScenario) =>
    /\ Len(analysisResults.events) = 1
    /\ LET e == analysisResults.events[1]
       IN /\ e.eventType = "overshoot"
          /\ Prop(e, "severity") = "severe"
          /\ e.duration = 300

\* the candidates that are members of grouped boost event g
BoostMembers(g) == {k \in 1..Len(rawEvents) : rawEvents[k].index \in g.members}

\* the first-to-last time span of the members of g
BoostSpan(g) ==
  LET times == {rawEvents[k].time : k \in BoostMembers(g)}
  IN (CHOOSE t \in times : \A u \in times : u <= t)
     - (CHOOSE t \in times : \A u \in times : t <= u)

\* the minimum span of a grouped event of the type: 0.25 s and 0.5 s
MinimumSpan(eventType) == IF eventType = "overshoot" THEN 250 ELSE 500

\* g groups candidates of one type, each at most 0.5 s after the one before
GroupedSeparately(g) ==
  /\ \A k \in BoostMembers(g) : rawEvents[k].eventType = g.eventType
  /\ \A k \in BoostMembers(g) :
       \/ rawEvents[k].time = g.time
       \/ \E j \in BoostMembers(g) :
            /\ rawEvents[j].time < rawEvents[k].time
            /\ rawEvents[k].time - rawEvents[j].time <= 500

\* C26: every overshoot event of the result spans at least 0.25 s and every
\* undershoot event at least 0.5 s; the groups are of one type each, built
\* with a 0.5 s window, and a group is in the result iff its first-to-last
\* span is at least the minimum of its type
C26_BoostEventsMeetMinimumDuration ==
  (component = "boost" /\ analysisResults.present) =>
    /\ \A k \in 1..Len(analysisResults.events) :
         LET e == analysisResults.events[k]
         IN /\ e.eventType \in {"overshoot", "undershoot"}
            /\ BoostSpan(e) >= MinimumSpan(e.eventType)
            /\ e.duration = BoostSpan(e)
    /\ \A g \in 1..Len(grouped) :
         /\ GroupedSeparately(grouped[g])
         /\ (\E k \in 1..Len(analysisResults.events) : analysisResults.events[k] = grouped[g])
            <=> BoostSpan(grouped[g]) >= MinimumSpan(grouped[g].eventType)

\* an analysis that kept an overshoot of 0.3 s and removed an undershoot
\* shorter than 0.5 s
C26_Witness ==
  /\ component = "boost"
  /\ analysisResults.present
  /\ \E k \in 1..Len(analysisResults.events) :
       /\ analysisResults.events[k].eventType = "overshoot"
       /\ analysisResults.events[k].duration = 300
  /\ \E g \in 1..Len(grouped) :
       /\ grouped[g].eventType = "undershoot"
       /\ grouped[g].duration < 500
       /\ \A k \in 1..Len(analysisResults.events) : analysisResults.events[k] # grouped[g]

\* the tier of the claim's ladder for an absolute error e in 1/10 kPa
BoostTier(e) ==
  IF e > 203 THEN "critical"
  ELSE IF 117 < e /\ e <= 203 THEN "severe"
  ELSE IF 53 < e /\ e <= 117 THEN "moderate"
  ELSE IF 21 < e /\ e <= 53 THEN "mild"
  ELSE "normal"

\* C21: an absolute boost error e is critical when e > 20.3 kPa, severe when
\* 11.7 < e <= 20.3, moderate when 5.3 < e <= 11.7, mild when 2.1 < e <= 5.3
\* and normal when e <= 2.1, whatever the sign of the error
C21_BoostSeverityLadder ==
  (component = "boostseverity" /\ returned.method = "classifyErrorSeverity")
  => returned.value.severity = BoostTier(Abs(data[1].error))

\* an undershoot of exactly 20.3 kPa has been classified: severe, the tier
\* next to the critical one that 20.4 kPa falls in
C21_Witness ==
  /\ component = "boostseverity"
  /\ returned.method = "classifyErrorSeverity"
  /\ data[1].error = -203
  /\ returned.value.severity = "severe"
  /\ classifyErrorSeverity(204) = "critical"

-----------------------------------------------------------------------------
(* Properties of the AFR analyzer *)

\* row i of the analysed log is a sample the scan did not skip
AFRSample(i) == ~AFRRowSkipped(data[i])

AFRErrorOf(i) == data[i].measuredAFR - data[i].targetAFR

\* |afrErrorPercent| = 50
HalfOffTarget(i) == 100 * Abs(AFRErrorOf(i)) = 50 * data[i].targetAFR

\* row i has a candidate of its own and is a member of an event of the result
ProducesEvent(i) ==
  /\ \E k \in 1..Len(rawEvents) : rawEvents[k].index = i - 1
  /\ \E g \in 1..Len(analysisResults.events) : (i - 1) \in analysisResults.events[g].members

\* row i has no candidate and is a member of no event of the result
ProducesNoEvent(i) ==
  /\ \A k \in 1..Len(rawEvents) : rawEvents[k].index # i - 1
  /\ \A g \in 1..Len(analysisResults.events) : (i - 1) \notin analysisResults.events[g].members

\* the error statistics are those of all samples, the low-throttle ones included
ErrorStatisticsOverAllSamples ==
  LET samples == {i \in 1..Len(data) : AFRSample(i)}
      stats == analysisResults.statistics
  IN /\ stats.totalDataPoints = Cardinality(samples)
     /\ stats.avgErrorAbs.n * Cardinality(samples) =
          stats.avgErrorAbs.d *
            SumOf([i \in 1..Len(data) |-> IF i \in samples THEN Abs(AFRErrorOf(i)) ELSE 0])
     /\ stats.avgError.n * Cardinality(samples) =
          stats.avgError.d *
            SumOf([i \in 1..Len(data) |-> IF i \in samples THEN AFRErrorOf(i) ELSE 0])
     /\ \A i \in samples : stats.maxRich <= AFRErrorOf(i) /\ AFRErrorOf(i) <= stats.maxLean

C4_TargetMismatchReported ==
  Analyzed("afr") =>
    \A i \in 1..Len(data) :
      ( /\ tuneLoaded
        /\ isPEModeActive(data[i].load, data[i].throttle)
        /\ Abs(data[i].targetAFR - getPETarget(data[i].load)) > peMismatchTolerance )
      => Covers(analysisResults.events, "target_mismatch", data[i].time)

-----------------------------------------------------------------------------
(* Properties of the short term fuel trim analyzer *)

\* sample i (1-based) of the analyzed log is in PE mode
InPEMode(i) == tuneLoaded /\ isPEModeActive(data[i].load, data[i].throttle)

PEModeSamples == {i \in 1..Len(data) : InPEMode(i)}

\* sample i is treated as abnormal: analyze() pushed a candidate for it
TreatedAsAbnormal(i) == \E k \in 1..Len(rawEvents) : rawEvents[k].index = i - 1

\* the statistics over the samples outside PE mode
StandardStatistics ==
  {"totalDataPoints", "avgTrim", "avgTrimAbs", "maxPositive", "maxNegative",
   "inTargetPercent", "abnormalEvents", "positiveEvents", "negativeEvents"}

\* the trims of the samples outside PE mode
ClosedLoopTrims ==
  LET outside == SelectSeq([i \in 1..Len(data) |-> [i |-> i]], LAMBDA x : ~InPEMode(x.i))
  IN [k \in 1..Len(outside) |-> data[outside[k].i].shortTermTrim]

\* C22: a PE mode sample is treated as abnormal iff |trim| > 5 %; PE mode
\* samples are left out of the standard statistics; and the result counts
\* them in PE mode counters of their own
C22_PEModeStricterAndTrackedSeparately ==
  (component = "fueltrim" /\ analysisResults.present)
  => /\ \A i \in PEModeSamples :
          TreatedAsAbnormal(i) <=> Abs(data[i].shortTermTrim) > 50
     /\ analysisResults.statistics.totalDataPoints = Len(ClosedLoopTrims)
     /\ Len(ClosedLoopTrims) > 0
        => analysisResults.statistics.avgTrim =
             Frac(SumOf(ClosedLoopTrims), Len(ClosedLoopTrims))
     /\ PEModeSamples # {}
        => \E counter \in DOMAIN analysisResults.statistics \ StandardStatistics :
             analysisResults.statistics[counter] = Cardinality(PEModeSamples)

\* the first two parts of C22 alone: the 5 % threshold of PE mode samples and
\* their absence from the sample count and the mean of the statistics
PEModeStricterAndExcluded ==
  (component = "fueltrim" /\ analysisResults.present)
  => /\ \A i \in PEModeSamples :
          TreatedAsAbnormal(i) <=> Abs(data[i].shortTermTrim) > 50
     /\ analysisResults.statistics.totalDataPoints = Len(ClosedLoopTrims)
     /\ Len(ClosedLoopTrims) > 0
        => analysisResults.statistics.avgTrim =
             Frac(SumOf(ClosedLoopTrims), Len(ClosedLoopTrims))

-----------------------------------------------------------------------------
(* Properties of the IAM analyzer *)

\* row i is a valid sample below the low threshold
IAMLow(i) ==
  LET iam == NormalizeIAM(data[i].iam) IN iam > 0 /\ iam < lowThreshold

\* rows i..j are a run of samples below the low threshold that starts at i
LowRun(i, j) ==
  /\ i <= j
  /\ \A k \in i..j : IAMLow(k)
  /\ (i = 1 \/ ~IAMLow(i - 1))

\* C5: for every run of samples below the low threshold that lasts at least
\* 5 s, the result of the IAM analyzer contains a stuck_low event starting at
\* the first sample of the run, also when the run reaches the end of the log.
C5_StuckLowReported ==
  Analyzed("iam") =>
    \A i, j \in 1..Len(data) :
      (LowRun(i, j) /\ data[j].time - data[i].time >= stuckLowThreshold)
      => \E k \in 1..Len(analysisResults.events) :
           /\ analysisResults.events[k].eventType = "stuck_low"
           /\ analysisResults.events[k].time = data[i].time

\* C6: every stuck_low event of the result starts at the first sample of a
\* run below the low threshold, ends no earlier than the last sample of that
\* run, and has duration = endTime - time >= 5 s.
C6_StuckLowSpansInterval ==
  Analyzed("iam") =>
    \A k \in 1..Len(analysisResults.events) :
      LET e == analysisResults.events[k]
      IN e.eventType = "stuck_low" =>
           /\ e.duration = e.endTime - e.time
           /\ e.duration >= stuckLowThreshold
           /\ \E i \in 1..Len(data) :
                /\ data[i].time = e.time
                /\ LowRun(i, i)
                /\ \A j \in i..Len(data) : LowRun(i, j) => data[j].time <= e.endTime

-----------------------------------------------------------------------------
(* Properties of the issue compiler *)

FourLevelScale == {"severe", "high", "low", "mild"}

\* C7: after compileAllIssues, every compiled issue of every source has a
\* severity on the 4-level scale {severe, high, low, mild}.
C7_CompiledSeverityFourLevel ==
  component = "logscore" =>
    \A k \in 1..Len(compiledIssues) : compiledIssues[k].severity \in FourLevelScale

-----------------------------------------------------------------------------
(* Properties of the autotune engine *)

\* analyze() has returned a summary rather than an error
AutotuneDone ==
  component = "autotune" /\ autotuneResult.present /\ autotuneResult.error = "none"

FuelCells == (1..Len(rpmAxis)) \X (1..Len(loadAxis))

\* the cell's value in the calibration as it was loaded
OriginalValue(rc) == tuneOriginal.fuel_base[rc[1]][rc[2]]

\* the cell's value in the modified copy of the last analyze()
AppliedValue(rc) == autotuneResult.suggestedTable[rc[1]][rc[2]].suggested

\* the last analyze() had a modification for the cell
HasModification(rc) == autotuneResult.suggestedTable[rc[1]][rc[2]].source # "null"

\* |applied - original| is at most limit percent of |original|
WithinLimit(rc, limit) ==
  ~RLess(RMul(Rat(limit), RAbs(OriginalValue(rc))),
         RMul(Rat(100), RAbs(RSub(AppliedValue(rc), OriginalValue(rc)))))

\* the log rows accumulated as open-loop samples of the cell by the last analyze()
OpenRowsOf(rc) ==
  {i \in 1..Len(data) :
     LET class == ClassifyRow(data[i], autotuneResult.minHitWeight)
     IN class.fuel = "open" /\ class.rpmIdx = rc[1] - 1 /\ class.loadIdx = rc[2] - 1}

\* the cell of the example: 30 open-loop samples, all at ratio 1.10,
\* analysed with minSamples = 25 and a change limit of 5 percent
ExampleCell(rc) ==
  /\ AutotuneDone
  /\ autotuneResult.minSamples = 25
  /\ autotuneResult.changeLimitPercent = 5
  /\ autotuneResult.suggestedTable[rc[1]][rc[2]].source = "open"
  /\ autotuneResult.suggestedTable[rc[1]][rc[2]].samples = 30
  /\ \A i \in OpenRowsOf(rc) :
       ClassifyRow(data[i], autotuneResult.minHitWeight).value = Frac(110, 100)

\* the open-loop samples of the cell have a positive total centering weight
PositiveOpenWeight(rc) ==
  \E i \in OpenRowsOf(rc) :
    RLess(Rat(0), ClassifyRow(data[i], autotuneResult.minHitWeight).cellWeight)

\* with a positive change limit every modified cell is within the limit of
\* its original value
ClampedToOriginal ==
  (AutotuneDone /\ autotuneResult.changeLimitPercent > 0) =>
    \A rc \in FuelCells :
      HasModification(rc) => WithinLimit(rc, autotuneResult.changeLimitPercent)

\* analyze() called again with the options of the previous call returns the
\* same summary
RerunSameOutput ==
  (AutotuneDone /\ analyzeCalls' = analyzeCalls + 1 /\ options' = options)
    => autotuneResult' = autotuneResult

\* C8 (as stated): with a change limit L > 0 every modified fuel-base cell is
\* within L percent of its original value, analysing twice with the same
\* inputs gives the same output, and any open-loop cell with 30 samples all at
\* ratio 1.10, minSamples = 25 and L = 5 is applied as exactly original x 1.05.
C8_ClampAndExampleAsStated ==
  /\ [](ClampedToOriginal
        /\ \A rc \in FuelCells :
             ExampleCell(rc) => AppliedValue(rc) = RMul(OriginalValue(rc), Frac(105, 100)))
  /\ [][RerunSameOutput]_vars

\* C8 (amended): with a change limit L > 0 every modified fuel-base cell is
\* within L percent of its original value, analysing twice with the same
\* inputs gives the same output, and an open-loop cell with 30 samples all at
\* ratio 1.10 whose samples have a positive total centering weight, with
\* minSamples = 25 and L = 5, is applied as exactly original x 1.05.
C8_ClampRelativeToOriginal ==
  /\ [](ClampedToOriginal
        /\ \A rc \in FuelCells :
             (ExampleCell(rc) /\ PositiveOpenWeight(rc))
               => AppliedValue(rc) = RMul(OriginalValue(rc), Frac(105, 100)))
  /\ [][RerunSameOutput]_vars

\* analyze() has run twice and the example cell was clamped to original x 1.05
C8_Witness ==
  /\ analyzeCalls >= 2
  /\ \E rc \in FuelCells :
       /\ ExampleCell(rc)
       /\ PositiveOpenWeight(rc)
       /\ OriginalValue(rc) # Rat(0)
       /\ AppliedValue(rc) = RMul(OriginalValue(rc), Frac(105, 100))

\* C9: when analyze() is given a change-limit option <= 0 (with a calibration
\* and a log loaded) it returns a summary, the limit it reports and uses is
\* the engine's floor, and every modified cell is within that limit of its
\* original value.
C9_NonPositiveLimitClampedToFloor ==
  (component = "autotune" /\ autotuneResult.present /\ tuneLoaded /\ Len(data) > 0
   /\ options.changeLimit <= 0) =>
    /\ autotuneResult.error = "none"
    /\ autotuneResult.changeLimitPercent = changeLimitFloor
    /\ \A rc \in FuelCells :
         HasModification(rc) => WithinLimit(rc, autotuneResult.changeLimitPercent)

\* C10: after any number of analyze() calls the loaded calibration's fuel_base
\* table and maf_scale array hold the values they held when it was loaded,
\* and the summary reports those values as the current ones: the suggested
\* values exist only in the copies made by analyze().
C10_CalibrationNeverMutated ==
  (component = "autotune" /\ tuneLoaded) =>
    /\ \A rc \in FuelCells : heap[tune.fuel_base[rc[1]]][rc[2]] = OriginalValue(rc)
    /\ heap[tune.maf_scale] = tuneOriginal.maf_scale
    /\ AutotuneDone =>
         /\ \A rc \in FuelCells :
              autotuneResult.suggestedTable[rc[1]][rc[2]].current = OriginalValue(rc)
         /\ autotuneResult.mafScale = tuneOriginal.maf_scale

\* analyze() has run twice and suggested a changed value for a fuel_base cell
\* and for a maf_scale entry
C10_Witness ==
  /\ AutotuneDone
  /\ analyzeCalls >= 2
  /\ \E rc \in FuelCells : AppliedValue(rc) # OriginalValue(rc)
  /\ autotuneResult.mafSuggestedScale # tuneOriginal.maf_scale

LoopSamples(rc, loop) ==
  SumOf([i \in 1..Len(data) |->
           LET class == ClassifyRow(data[i], autotuneResult.minHitWeight)
           IN IF class.fuel = loop /\ class.rpmIdx = rc[1] - 1 /\ class.loadIdx = rc[2] - 1
              THEN data[i].count ELSE 0])

\* the cell has a summary of the loop: samples, and at least minSamples of them
HasSummary(rc, loop) ==
  LoopSamples(rc, loop) > 0 /\ LoopSamples(rc, loop) >= autotuneResult.minSamples

\* the suggestion of the cell's open-loop summary: original x weighted mean ratio
OpenSuggestion(rc) ==
  SummaryEntry(FuelBin(data, ClassifyRows(data, autotuneResult.minHitWeight), "open",
                       rc[1] - 1, rc[2] - 1),
               "open", OriginalValue(rc), autotuneResult.minSamples).suggested

\* C18: a cell with an open-loop summary is modified by the open-loop
\* suggestion (source open), also when it has a closed-loop summary; the
\* closed-loop suggestion is applied only to cells without an open-loop summary
C18_OpenLoopOverridesClosedLoop ==
  AutotuneDone =>
    \A rc \in FuelCells :
      LET entry == autotuneResult.suggestedTable[rc[1]][rc[2]]
      IN /\ HasSummary(rc, "open") =>
              /\ entry.source = "open"
              /\ entry.samples = LoopSamples(rc, "open")
              /\ OriginalValue(rc) # Rat(0) =>
                   AppliedValue(rc) = TargetValue(OriginalValue(rc), OpenSuggestion(rc),
                                                  autotuneResult.changeLimitPercent)
         /\ entry.source = "closed" <=> (HasSummary(rc, "closed") /\ ~HasSummary(rc, "open"))

\* an analysis in which a cell has both summaries and is modified from the open loop
C18_Witness ==
  /\ AutotuneDone
  /\ \E rc \in FuelCells :
       /\ HasSummary(rc, "open")
       /\ HasSummary(rc, "closed")
       /\ autotuneResult.suggestedTable[rc[1]][rc[2]].source = "open"
       /\ AppliedValue(rc) # OriginalValue(rc)

\* the loop state analyze() classifies a row with finite values in
LoopStateOf(row) ==
  IF /\ row.load >= peEnableLoadArray[axisIndex(row.rpm, rpmAxis) + 1]
     /\ row.throttle >= peEnableTpsArray[axisIndex(row.rpm, rpmAxis) + 1]
  THEN "open" ELSE "closed"

\* the raw sample count of the cell for a loop state: the valid samples that
\* fell in the cell in that loop state, those under minHitWeight included
RawSamples(rc, loop) ==
  SumOf([i \in 1..Len(data) |->
           LET class == ClassifyRow(data[i], autotuneResult.minHitWeight)
           IN IF /\ class.fuel \in {loop, "filtered"}
                 /\ LoopStateOf(data[i]) = loop
                 /\ class.rpmIdx = rc[1] - 1 /\ class.loadIdx = rc[2] - 1
              THEN data[i].count ELSE 0])

\* C25: a fuel-base cell is summarized, and so has a modification, iff its
\* raw sample count for a loop state is at least minSamples, the samples
\* that did not pass the minHitWeight filter included; other cells keep
\* their current value
C25_SummarizedIffRawCountReachesMinSamples ==
  AutotuneDone =>
    \A rc \in FuelCells :
      /\ HasModification(rc)
         <=> \E loop \in {"open", "closed"} :
               RawSamples(rc, loop) >= autotuneResult.minSamples
      /\ ~HasModification(rc) => AppliedValue(rc) = OriginalValue(rc)

\* the same with the count the engine compares with minSamples: the samples
\* that passed the minHitWeight filter
SummarizedIffAccumulatedCountReachesMinSamples ==
  AutotuneDone =>
    \A rc \in FuelCells :
      /\ HasModification(rc)
         <=> \E loop \in {"open", "closed"} : HasSummary(rc, loop)
      /\ ~HasModification(rc) => AppliedValue(rc) = OriginalValue(rc)

\* calculateAxisWeight has been called on a value in the last bin of an axis
\* of at least two breakpoints
LastBinWeighed ==
  /\ component = "axislookup"
  /\ returned.method = "calculateAxisWeight"
  /\ Len(data[1].axis) >= 2
  /\ returned.value.index = Len(data[1].axis) - 1

\* the last two breakpoints of the weighed axis differ
LastSpanPositive == data[1].axis[Len(data[1].axis) - 1] < data[1].axis[Len(data[1].axis)]

\* the cells of the last rpm row and of the last load column
LastBinCells == {rc \in FuelCells : rc[1] = Len(rpmAxis) \/ rc[2] = Len(loadAxis)}

\* the cells of the last rpm row and the last load column of the modified
\* table have their original values
LastBinCellsKeepOriginal ==
  AutotuneDone => \A rc \in LastBinCells : AppliedValue(rc) = OriginalValue(rc)

\* C28: on an axis of at least two breakpoints a sample in the last bin has
\* centering weight exactly 0, and the cells of the last rpm row and the last
\* load column of the modified fuel-base table keep their original values
C28_LastBinWeightZero ==
  /\ LastBinWeighed => returned.value.weight = Rat(0)
  /\ LastBinCellsKeepOriginal

\* C28 for axes whose last two breakpoints differ
C28_LastBinWeightZeroOnPositiveSpan ==
  /\ (LastBinWeighed /\ LastSpanPositive) => returned.value.weight = Rat(0)
  /\ (LastBinWeighed /\ ~LastSpanPositive) => returned.value.weight = Rat(1)
  /\ LastBinCellsKeepOriginal

\* 30 open-loop samples at ratio 1.10 on the last rpm breakpoint have been
\* analysed with minSamples 1 and minHitWeight 0: the cell has an open-loop
\* modification and its value of 800
C28_Witness ==
  /\ AutotuneDone
  /\ autotuneResult.minSamples = 1
  /\ autotuneResult.minHitWeight = Rat(0)
  /\ \E i \in 1..Len(data) : data[i].rpm = 4000 /\ data[i].count = 30
  /\ autotuneResult.suggestedTable[2][1].source = "open"
  /\ autotuneResult.suggestedTable[2][1].samples = 30
  /\ AppliedValue(<<2, 1>>) = Rat(800)

\* the number of rows of the log (an entry of data stands for count rows)
LogRowCount == SumOf([i \in 1..Len(data) |-> data[i].count])

\* C27: skippedRows, filteredByCenterWeight, totalOpenSamples and
\* totalClosedSamples of one analyze() run sum to the number of rows of the log
C27_CountersSumToRows ==
  AutotuneDone =>
    autotuneResult.skippedRows + autotuneResult.filteredByCenterWeight
    + autotuneResult.totalOpenSamples + autotuneResult.totalClosedSamples
    = LogRowCount

\* an analysis of a log with a skipped row and a run of 30 rows under minHitWeight
C27_Witness ==
  /\ AutotuneDone
  /\ autotuneResult.skippedRows = 1
  /\ autotuneResult.filteredByCenterWeight = 30
  /\ LogRowCount = 31

-----------------------------------------------------------------------------
(* Properties of the knock detector *)

\* the rows of the log that are members of grouped event e
MemberRows(e) == {i \in 1..Len(data) : (i - 1) \in e.members}

\* e reports the retard and severity of a most negative member, the times of
\* its first and last members and the number of its members
ReportsMostNegative(e) ==
  /\ \E i \in MemberRows(e) :
       /\ \A j \in MemberRows(e) : data[i].knockRetard <= data[j].knockRetard
       /\ e.knockRetard = data[i].knockRetard
       /\ e.severity = categorizeSeverity(data[i].knockRetard, data[i].load)
  /\ \A j \in MemberRows(e) : e.time <= data[j].time /\ data[j].time <= e.endTime
  /\ \E i, j \in MemberRows(e) : e.time = data[i].time /\ e.endTime = data[j].time
  /\ e.duration = e.endTime - e.time
  /\ e.eventCount = Cardinality(MemberRows(e))

\* the log of the example: five samples from 10.00 s, 0.01 s apart, knock
\* retard -5.0, rpm 3000, load 1.0
FiveSampleRun == data = KnockRun(10000, 5, 10, -50000, 100)

\* C16: every grouped knock event reports the retard and severity of its most
\* negative member, starts at its first member, ends at its last and counts
\* its members; the five samples of the example give exactly one event with
\* time 10.00, endTime 10.04, duration 0.04, severity severe, knock retard
\* -5.0 and eventCount 5
C16_GroupedKnockEvent ==
  Analyzed("knock") =>
    /\ \A g \in 1..Len(analysisResults.events) :
         ReportsMostNegative(analysisResults.events[g])
    /\ FiveSampleRun =>
         /\ Len(analysisResults.events) = 1
         /\ analysisResults.events[1].time = 10000
         /\ analysisResults.events[1].endTime = 10040
         /\ analysisResults.events[1].duration = 40
         /\ analysisResults.events[1].severity = "severe"
         /\ analysisResults.events[1].knockRetard = -50000
         /\ analysisResults.events[1].eventCount = 5

\* the example's log has been analysed into one event of five members
C16_Witness ==
  /\ Analyzed("knock")
  /\ FiveSampleRun
  /\ Len(analysisResults.events) = 1
  /\ analysisResults.events[1].eventCount = 5

\* the 0-based index of the last grouped sample of event e
LastGroupedIndex(e) == CHOOSE i \in e.members : \A j \in e.members : j <= i

\* the recovery run of event e: the consecutive still-negative samples from
\* the one right after its last grouped sample, at most 100 of them and none
\* later than 2.0 s after the event's end time
RecoveryRunAfterEvent(e) ==
  RecoveryPoints(data, LastGroupedIndex(e) + 1, LastGroupedIndex(e) + 1,
                 e.endTime + 2000, <<>>)

\* the recovery fields of e are those of recovery run run: immediate recovery
\* for an empty run, no rate for a single sample, else the run's time span
RecoveryFieldsFrom(e, run) ==
  /\ e.persistentKnock = (Len(run) > 20)
  /\ e.recoveryTime =
       IF Len(run) > 1 THEN [isNull |-> FALSE, ms |-> run[Len(run)].time - run[1].time]
       ELSE IF Len(run) = 0 THEN [isNull |-> FALSE, ms |-> 0]
       ELSE [isNull |-> TRUE, ms |-> 0]

\* C23: the recovery pass of a grouped knock event collects the consecutive
\* still-negative samples that follow the event's last grouped sample,
\* beginning with the sample right after it (at most 100 samples, none later
\* than 2.0 s after the event's end); persistentKnock iff more than 20 of them
C23_RecoveryScansFromEventEnd ==
  (component = "knock" /\ analysisResults.present)
  => \A k \in 1..Len(analysisResults.events) :
       RecoveryFieldsFrom(analysisResults.events[k],
                          RecoveryRunAfterEvent(analysisResults.events[k]))

\* the severity of the claim's table for a knock retard between (from
\* inclusive, below exclusive) the thresholds critical, severe and moderate
SeverityByTable(knockRetard, critical, severe, moderate) ==
  IF knockRetard < critical THEN "critical"
  ELSE IF knockRetard < severe THEN "severe"
  ELSE IF knockRetard < moderate THEN "moderate"
  ELSE "mild"

\* C15: at load >= 0.81 a knock retard is critical below -6.0, severe in
\* [-6.0, -4.0), moderate in [-4.0, -2.0) and mild above (while < -0.0001);
\* at load < 0.81 the boundaries are -5.5, -3.5 and -1.5
C15_SeverityBoundaries ==
  (component = "severity" /\ returned.method = "categorizeSeverity"
   /\ data[1].knockRetard < -1)
  => returned.value.severity =
       IF data[1].load >= 81
       THEN SeverityByTable(data[1].knockRetard, -60000, -40000, -20000)
       ELSE SeverityByTable(data[1].knockRetard, -55000, -35000, -15000)

\* a retard of -5.5 has been categorized at a load below 0.81: severe, not critical
C15_Witness ==
  /\ component = "severity"
  /\ returned.method = "categorizeSeverity"
  /\ data[1].knockRetard = -55000
  /\ data[1].load = 80
  /\ returned.value.severity = "severe"

-----------------------------------------------------------------------------
(* Properties of the load limit analyzer *)

\* the log analyze() was called on had no load column
LoadColumnMissing == findColumn(columns, loadColumnNames) = "null"

\* C12: when the required column is not found or the log is empty, analyze()
\* returns a well-formed result: not null, with an empty events list, zeroed
\* statistics and an error string
C12_AnalyzeReturnsWellFormedResult ==
  (/\ component = "loadlimit"
   /\ returned.method = "analyze"
   /\ (returned.rows = 0 \/ LoadColumnMissing))
  => /\ ~returned.isNull
     /\ returned.value.present
     /\ returned.value.events = <<>>
     /\ returned.value.statistics = LoadLimitEmptyStatistics
     /\ returned.value.error # "none"

\* raw events a and b (positions in rawEvents, a before b) are of the same
\* type, neighbours in time among the events of that type, and at most 0.5 s apart
SameTypeNeighbours(a, b) ==
  /\ rawEvents[a].eventType = rawEvents[b].eventType
  /\ rawEvents[a].time < rawEvents[b].time
  /\ rawEvents[b].time - rawEvents[a].time <= 500
  /\ ~\E c \in 1..Len(rawEvents) :
        /\ rawEvents[c].eventType = rawEvents[a].eventType
        /\ rawEvents[a].time < rawEvents[c].time
        /\ rawEvents[c].time < rawEvents[b].time

\* the sample indices of group g of the last scan
LoadLimitMembers(g) == {grouped[g][k].index : k \in 1..Len(grouped[g])}

InSameGroup(a, b) ==
  \E g \in 1..Len(grouped) :
    rawEvents[a].index \in LoadLimitMembers(g) /\ rawEvents[b].index \in LoadLimitMembers(g)

\* grouped event g carries the values of a member with the highest load
\* ratio, and the peak load of its members
CarriesHighestRatioSample(g) ==
  LET e == analysisResults.events[g]
  IN /\ \E k \in 1..Len(grouped[g]) :
          /\ \A j \in 1..Len(grouped[g]) :
               ~RLess(grouped[g][k].loadRatio, grouped[g][j].loadRatio)
          /\ e.index = grouped[g][k].index
          /\ e.load = grouped[g][k].load
          /\ e.loadRatio = grouped[g][k].loadRatio
          /\ e.eventType = grouped[g][k].eventType
     /\ \A j \in 1..Len(grouped[g]) : grouped[g][j].load <= e.maxLoad
     /\ \E j \in 1..Len(grouped[g]) : grouped[g][j].load = e.maxLoad

\* C24: two load limit events of the same type that are neighbours in time
\* among the events of that type and at most 0.5 s apart are in the same
\* grouped event, whatever events of the other type lie between them; a
\* grouped event carries the values of its highest-ratio sample and the peak
\* load of the group
C24_SameTypeMergedAcrossOtherType ==
  (component = "loadlimit" /\ analysisResults.present /\ analysisResults.error = "none")
  => /\ \A a, b \in 1..Len(rawEvents) : SameTypeNeighbours(a, b) => InSameGroup(a, b)
     /\ \A g \in 1..Len(grouped) : CarriesHighestRatioSample(g)

\* the grouping as the analyzer does it: neighbours in time among all events
\* are in the same grouped event iff they are of the same type and at most
\* 0.5 s apart, and every grouped event carries its highest-ratio sample
LoadLimitGroupedIffAdjacentSameType ==
  (component = "loadlimit" /\ analysisResults.present /\ analysisResults.error = "none")
  => /\ \A a \in 1..(Len(rawEvents) - 1) :
          InSameGroup(a, a + 1)
          <=> /\ rawEvents[a].eventType = rawEvents[a + 1].eventType
              /\ rawEvents[a + 1].time - rawEvents[a].time <= 500
     /\ \A g \in 1..Len(grouped) : CarriesHighestRatioSample(g)

\* a scan of the rows has just been stored (by analyze() or by a getter that
\* found no stored result)
ScanStored == analysisResults' # analysisResults /\ analysisResults'.error = "none"

\* the candidates of the stored scan for row i of the log
SampleEvents(i) == {k \in 1..Len(rawEvents') : rawEvents'[k].index = i - 1}

\* what the scan must have made of row i, whose load limit is loadLimit
SampleClassified(i, loadLimit) ==
  LET load == data'[i].load
      violation == load > loadLimit
      near == 10 * load >= 9 * loadLimit /\ load < loadLimit
  IN /\ Cardinality(SampleEvents(i)) <= 1
     /\ violation <=> \E k \in SampleEvents(i) :
                        /\ rawEvents'[k].eventType = "limit_violation"
                        /\ rawEvents'[k].severity = "critical"
     /\ near <=> \E k \in SampleEvents(i) :
                   /\ rawEvents'[k].eventType = "near_limit"
                   /\ rawEvents'[k].severity = "severe"
     /\ (~violation /\ ~near) => SampleEvents(i) = {}
     /\ \A k \in SampleEvents(i) :
          /\ rawEvents'[k].loadRatio.n * loadLimit = load * rawEvents'[k].loadRatio.d
          /\ rawEvents'[k].load = load
          /\ rawEvents'[k].loadLimit = loadLimit

\* C17: every sample with positive load and rpm is a limit_violation of
\* severity critical iff load > limit, a near_limit of severity severe iff
\* 0.9 <= load / limit < 1.0, and no event otherwise; loadRatio = load / limit
C17_LoadLimitClassification ==
  [][ScanStored =>
       \A i \in 1..Len(data') :
         (data'[i].load > 0 /\ data'[i].rpm > 0)
           => SampleClassified(i, LoadLimitOf(data'[i].rpm, tuneLoaded'))]_vars

\* a stored scan with a near_limit candidate and a sample exactly at its limit
C17_Witness ==
  /\ component = "loadlimit"
  /\ analysisResults.present
  /\ Len(data) = 2
  /\ Len(rawEvents) = 1
  /\ rawEvents[1].eventType = "near_limit"
  /\ \E i \in 1..Len(data) :
       /\ data[i].rpm > 0
       /\ data[i].load = LoadLimitOf(data[i].rpm, tuneLoaded)
       /\ \A k \in 1..Len(rawEvents) : rawEvents[k].index # i - 1


\* a call of getStatistics() or getEvents() on an analyzer that holds a result
GetterOnStoredResult ==
  /\ LoadLimitGetStatistics \/ LoadLimitGetEvents
  /\ analysisResults.present

\* C20: once a result is stored, getStatistics() and getEvents() return the
\* statistics and events of that result and leave it as it is (no new scan),
\* whatever the log and the calibration have become since
C20_GettersReturnStoredResult ==
  [][GetterOnStoredResult =>
       /\ analysisResults' = analysisResults
       /\ rawEvents' = rawEvents
       /\ grouped' = grouped
       /\ ~returned'.isNull
       /\ returned'.method = "getStatistics"
            => returned'.value = analysisResults.statistics
       /\ returned'.method = "getEvents"
            => returned'.value.events = analysisResults.events]_vars

\* getStatistics() has returned the stored statistics although a scan of the
\* present log under the present calibration would give another result
C20_Witness ==
  /\ component = "loadlimit"
  /\ analysisResults.present
  /\ returned.method = "getStatistics"
  /\ returned.rows = Len(data)
  /\ returned.value = analysisResults.statistics
  /\ analysisResults # LoadLimitAnalysis(data, columns, tuneLoaded).result


-----------------------------------------------------------------------------
(* Properties of the short term fuel trim toggle of the issue compiler *)

IssuesFrom(sourceId) ==
  {k \in 1..Len(compiledIssues) : compiledIssues[k].sourceId = sourceId}

\* short term fuel trim issues are listed only while the toggle is on
ShortTermOnlyWhenToggled == IssuesFrom("fueltrim") # {} => showShortTermTrim

\* no cached event is listed twice and nothing is left of an earlier compile
NoCarryOver ==
  /\ Len(compiledIssues) <= CachedEventCount
  /\ Cardinality(IssuesFrom("fueltrim")) <= Len(cache["fueltrim"])
  /\ Cardinality(IssuesFrom("longtermfueltrim")) <= Len(cache["longtermfueltrim"])

\* a compile gives the list that the cache and the toggle determine, whatever
\* the list was before
CompiledFromInputs ==
  (compiledIssues' # compiledIssues \/ showShortTermTrim' # showShortTermTrim)
    => compiledIssues' = compileAllIssues(cache', showShortTermTrim')

\* C13: the toggle is off at first; the compiled list holds short term fuel
\* trim issues only if the toggle was on at the last compile; every compile
\* builds the list anew from the cache and the toggle
C13_ShortTermTrimOnlyWhenToggled ==
  /\ (component = "logscore" => ~showShortTermTrim)
  /\ [](component = "logscore" => ShortTermOnlyWhenToggled /\ NoCarryOver)
  /\ [][CompiledFromInputs]_vars

\* the toggle is on and a cached short term fuel trim event is listed
C13_Witness ==
  /\ component = "logscore"
  /\ showShortTermTrim
  /\ IssuesFrom("fueltrim") # {}
  /\ IssuesFrom("longtermfueltrim") # {}


-----------------------------------------------------------------------------
(* Properties of the axis lookups *)

\* C19: an axis lookup returns 0 for a value below the first breakpoint, the
\* last index for a value above the last, the index of a breakpoint equal to
\* the value for a value on a breakpoint, and otherwise the i with
\* axis[i] <= value < axis[i+1]; the index is always within [0, length - 1]
C19_AxisIndexClamped ==
  (component = "axislookup" /\ returned.method # "none") =>
    LET value == data[1].value
        axis == data[1].axis
        idx == returned.value.index
    IN /\ 0 <= idx /\ idx <= Len(axis) - 1
       /\ value < axis[1] => idx = 0
       /\ value > axis[Len(axis)] => idx = Len(axis) - 1
       /\ (\E k \in 1..Len(axis) : axis[k] = value) => axis[idx + 1] = value
       /\ (/\ axis[1] <= value
           /\ value <= axis[Len(axis)]
           /\ \A k \in 1..Len(axis) : axis[k] # value)
          => axis[idx + 1] <= value /\ value < axis[idx + 2]
       /\ idx < Len(axis) - 1 => \/ value < axis[idx + 2]
                                 \/ value < axis[1]

\* a lookup of a value on an inner breakpoint has returned that breakpoint's index
C19_Witness ==
  /\ component = "axislookup"
  /\ returned.method = "axisIndex"
  /\ data[1].axis = <<10, 20, 30>>
  /\ data[1].value = 20
  /\ returned.value.index = 1

-----------------------------------------------------------------------------
(* AppState: the event system *)

AppEvents == {"smoothingChanged", "timeRangeChanged"}
Callbacks == {"a", "b", "c"}
EmitData == {1, 2}

\* callbacks.indexOf(callback), 0-based, -1 when absent
indexOf(callbacks, callback) ==
  IF \E i \in 1..Len(callbacks) : callbacks[i] = callback
  THEN (CHOOSE i \in 1..Len(callbacks) :
          /\ callbacks[i] = callback
          /\ \A j \in 1..(i - 1) : callbacks[j] # callback) - 1
  ELSE -1

\* callbacks.splice(index, 1)
splice(callbacks, index) ==
  SubSeq(callbacks, 1, index) \o SubSeq(callbacks, index + 2, Len(callbacks))

\* this._listeners after on(event, callback)
on(ls, event, callback) ==
  LET withEvent == IF event \in DOMAIN ls THEN ls
                   ELSE [e \in DOMAIN ls \cup {event} |->
                           IF e = event THEN <<>> ELSE ls[e]]
  IN [withEvent EXCEPT ![event] = Append(@, callback)]

\* this._listeners after a call of the unsubscribe function that on(event, callback) returned
unsubscribe(ls, event, callback) ==
  IF event \in DOMAIN ls
  THEN LET index == indexOf(ls[event], callback)
       IN IF index > -1 THEN [ls EXCEPT ![event] = splice(@, index)] ELSE ls
  ELSE ls

\* the callbacks whose unsubscribe function has been called
UnsubscribeCalled == {u.callback : u \in {v \in unsubscribers : v.called}}

\* a callback is passed to on() at most once
Unused(callback) == \A u \in unsubscribers : u.callback # callback

\* on(event, callback) called outside of an emit
On ==
  /\ component = "appstate"
  /\ ~emit.running
  /\ \E event \in AppEvents, callback \in Callbacks :
       /\ Unused(callback)
       /\ listeners' = on(listeners, event, callback)
       /\ unsubscribers' = unsubscribers \cup
                             {[event |-> event, callback |-> callback, called |-> FALSE]}
  /\ UNCHANGED <<emit, component, analyzerVars, logScoreVars, autotuneVars, callVars>>

\* an unsubscribe function called outside of an emit
Unsubscribe ==
  /\ component = "appstate"
  /\ ~emit.running
  /\ \E u \in unsubscribers :
       /\ listeners' = unsubscribe(listeners, u.event, u.callback)
       /\ unsubscribers' = (unsubscribers \ {u}) \cup {[u EXCEPT !.called = TRUE]}
  /\ UNCHANGED <<emit, component, analyzerVars, logScoreVars, autotuneVars, callVars>>

\* _emit(event, data) up to the call of forEach
EmitStart ==
  /\ component = "appstate"
  /\ ~emit.running
  /\ \E event \in AppEvents, d \in EmitData :
       LET callbacks == IF event \in DOMAIN listeners THEN listeners[event] ELSE <<>>
       IN emit' = [running |-> Len(callbacks) > 0, event |-> event, data |-> d,
                   k |-> 0, len |-> Len(callbacks),
                   atStart |-> {callbacks[i] : i \in 1..Len(callbacks)},
                   unsubscribedBefore |-> UnsubscribeCalled,
                   received |-> [c \in Callbacks |-> <<>>],
                   errors |-> 0, spliced |-> FALSE]
  /\ UNCHANGED <<listeners, unsubscribers>>
  /\ UNCHANGED <<component, analyzerVars, logScoreVars, autotuneVars, callVars>>

\* what a listener does when it is called
ListenerBehaviours ==
  {[kind |-> "return"], [kind |-> "throw"]}
    \cup {[kind |-> "unsubscribe", unsubscriber |-> u] : u \in unsubscribers}
    \cup {[kind |-> "on", event |-> e, callback |-> c] :
            e \in AppEvents, c \in {x \in Callbacks : Unused(x)}}

\* one iteration of callbacks.forEach: index k of the array as it is now, when present
EmitStep ==
  /\ component = "appstate"
  /\ emit.running
  /\ emit.k < emit.len
  /\ LET callbacks == listeners[emit.event]
         last == emit.k + 1 = emit.len
     IN IF emit.k < Len(callbacks)
        THEN \E b \in ListenerBehaviours :
               LET callback == callbacks[emit.k + 1]
                   called == [emit EXCEPT !.received[callback] = Append(@, emit.data),
                                          !.k = @ + 1,
                                          !.running = ~last]
               IN CASE b.kind = "return" ->
                         /\ emit' = called
                         /\ UNCHANGED <<listeners, unsubscribers>>
                    [] b.kind = "throw" ->
                         /\ emit' = [called EXCEPT !.errors = @ + 1]
                         /\ UNCHANGED <<listeners, unsubscribers>>
                    [] b.kind = "unsubscribe" ->
                         /\ listeners' = unsubscribe(listeners, b.unsubscriber.event,
                                                     b.unsubscriber.callback)
                         /\ unsubscribers' = (unsubscribers \ {b.unsubscriber}) \cup
                                               {[b.unsubscriber EXCEPT !.called = TRUE]}
                         /\ emit' = [called EXCEPT !.spliced = @ \/ listeners' # listeners]
                    [] b.kind = "on" ->
                         /\ listeners' = on(listeners, b.event, b.callback)
                         /\ unsubscribers' = unsubscribers \cup
                              {[event |-> b.event, callback |-> b.callback, called |-> FALSE]}
                         /\ emit' = called
        ELSE /\ emit' = [emit EXCEPT !.k = @ + 1, !.running = ~last]
             /\ UNCHANGED <<listeners, unsubscribers>>
  /\ UNCHANGED <<component, analyzerVars, logScoreVars, autotuneVars, callVars>>

AppStateNext == On \/ Unsubscribe \/ EmitStart \/ EmitStep

InitAppState ==
  /\ component = "appstate"
  /\ AnalyzerIdle
  /\ LogScoreIdle
  /\ AutotuneIdle
  /\ CallIdle
  /\ AppStateIdle

SpecAppState == InitAppState /\ [][AppStateNext]_vars

-----------------------------------------------------------------------------
(* Properties of groupEventsByTime *)

GroupsReturned == returned.value.events
FlatGroups == Concat(GroupsReturned)

\* the number of the group, and the place in it, where the event of position p is held
GroupPlacesOf(p) ==
  {<<g, k>> \in (1..Len(GroupsReturned)) \X (1..MaxGroupEvents + 1) :
     k <= Len(GroupsReturned[g]) /\ GroupsReturned[g][k] = data[1].events[p]}

\* C29: for any input list in any order, groupEventsByTime puts every input event
\* in exactly one group (the group sizes sum to the number of input events), leaves
\* the caller's array unchanged, keeps consecutive members of a group at most the
\* window apart, separates the last member of a group from the first member of the
\* next by more than the window, and returns the groups in ascending time order
C29_GroupEventsByTimePartition ==
  (component = "grouping" /\ returned.method = "groupEventsByTime") =>
    LET groups == GroupsReturned
        w == data[1].timeWindow
    IN /\ \A p \in 1..Len(data[1].events) : Cardinality(GroupPlacesOf(p)) = 1
       /\ SumOf([g \in 1..Len(groups) |-> Len(groups[g])]) = Len(data[1].events)
       /\ \A g \in 1..Len(groups) : Len(groups[g]) >= 1
       /\ rawEvents = data[1].events
       /\ \A g \in 1..Len(groups) : \A k \in 1..(Len(groups[g]) - 1) :
            /\ groups[g][k].time <= groups[g][k + 1].time
            /\ groups[g][k + 1].time - groups[g][k].time <= w
       /\ \A g \in 1..(Len(groups) - 1) :
            groups[g + 1][1].time - groups[g][Len(groups[g])].time > w
       /\ \A j \in 1..(Len(FlatGroups) - 1) : FlatGroups[j].time <= FlatGroups[j + 1].time

\* an unsorted list was grouped into a group of two members and a later group
C29_Witness ==
  /\ component = "grouping"
  /\ returned.method = "groupEventsByTime"
  /\ \E p \in 1..(Len(data[1].events) - 1) :
       data[1].events[p].time > data[1].events[p + 1].time
  /\ Len(GroupsReturned) = 2
  /\ Len(GroupsReturned[1]) = 2
  /\ GroupsReturned[1][1].time < GroupsReturned[1][2].time

-----------------------------------------------------------------------------
(* Properties of the AppState event system *)

EmitFinished == component = "appstate" /\ ~emit.running /\ emit.event # "none"

\* C30: when AppState emits an event, every callback that is subscribed to that
\* event when the emit starts and has not had its own unsubscribe function called
\* is invoked exactly once with the event data, even if another listener throws or
\* calls its unsubscribe function during the same emit; a callback is never invoked
\* by an emit that starts after its unsubscribe function has been called
C30_SubscribedListenersInvokedOnce ==
  /\ EmitFinished =>
       \A c \in emit.atStart \ UnsubscribeCalled : emit.received[c] = <<emit.data>>
  /\ component = "appstate" =>
       \A c \in emit.unsubscribedBefore : emit.received[c] = <<>>

\* when no unsubscribe function removes a callback during the emit, every callback
\* subscribed at its start is invoked exactly once with the data, whatever throws;
\* an emit never reaches a callback unsubscribed before it started
InvokedOnceWhenNoneUnsubscribesDuringEmit ==
  /\ (EmitFinished /\ ~emit.spliced) =>
       \A c \in emit.atStart : emit.received[c] = <<emit.data>>
  /\ component = "appstate" =>
       /\ \A c \in emit.unsubscribedBefore : emit.received[c] = <<>>
       /\ \A c \in DOMAIN emit.received : Len(emit.received[c]) <= 1

====
